---- MODULE Spec2Model ----
(***************************************************************************)
(* Browser-automation scripts for two social platforms (weibo.ts and       *)
(* xiaohongshu.ts): the feed walk (fetchLatestWeibo / fetchLatestNotes),   *)
(* the post operations (postWeibo / postXiaohongshu) and the count parser  *)
(* (parseNumberWithUnit and its inline variants).  Further specifications *)
(* cover the helpers on their own: the cookie setup, waitForSelector, the  *)
(* tag normalisation, the summary formatter, autoScroll, and the tools     *)
(* crawl, readWordContent and getDesktopFiles.                             *)
(*                                                                         *)
(* Text is modelled as a sequence of symbols.  A symbol is one character,  *)
(* or a fixed word that the code only ever tests or inserts as a whole     *)
(* ("http", "avatar", "emoji", "/u/", "profile/", "/large/", a host).      *)
(* Three non-ASCII characters of the source have ASCII stand-ins:          *)
(*   WAN is the ten-thousand marker (U+4E07), YI the hundred-million       *)
(*   marker (U+4EBF) and ZAN the one-character like label (U+8D5E).        *)
(* A JavaScript number is modelled as [nan, m, e]: not-a-number, or the    *)
(* exact decimal m * 10^e with m not divisible by 10 (zero is m=0, e=0).   *)
(* Multiplication by a power of ten is exact (no IEEE rounding).           *)
(***************************************************************************)
EXTENDS Integers, Sequences, FiniteSets, TLC

\* ------------------------------------------------------------------ bounds

\* Longest text token enumerated exhaustively for the count parser.
MaxTokLen == 4
\* Most summary cards a listing page holds.
MaxCards == 2
\* Largest limit a walk is called with.
MaxLimit == 2

\* ------------------------------------------------------------------ text

WAN == "WAN"
YI == "YI"
ZAN == "ZAN"

Digits == {"0", "1", "2", "3", "4", "5", "6", "7", "8", "9"}

DigitVal(c) ==
  CASE c = "0" -> 0 [] c = "1" -> 1 [] c = "2" -> 2 [] c = "3" -> 3
    [] c = "4" -> 4 [] c = "5" -> 5 [] c = "6" -> 6 [] c = "7" -> 7
    [] c = "8" -> 8 [] c = "9" -> 9

\* The empty text.
Empty == << >>

\* String.prototype.includes for a one-character needle.
Includes(s, c) == \E k \in 1..Len(s) : s[k] = c

\* String.prototype.startsWith.
StartsWith(s, p) == Len(s) >= Len(p) /\ SubSeq(s, 1, Len(p)) = p

\* Index of the first occurrence of c in s, 0 when there is none.
IndexOf(s, c) ==
  IF Includes(s, c) THEN CHOOSE k \in 1..Len(s) : s[k] = c /\ \A j \in 1..(k-1) : s[j] # c
  ELSE 0

\* text.replace(c, ''): a string pattern replaces the FIRST occurrence only.
ReplaceFirst(s, c) ==
  LET k == IndexOf(s, c)
  IN IF k = 0 THEN s ELSE SubSeq(s, 1, k - 1) \o SubSeq(s, k + 1, Len(s))

\* text.replace(/c/g, ''): every occurrence is removed.
ReplaceAll(s, c) == SelectSeq(s, LAMBDA x : x # c)

\* /^\d+$/.test(s)
AllDigits(s) == Len(s) >= 1 /\ \A k \in 1..Len(s) : s[k] \in Digits

\* ------------------------------------------------------------------ numbers

NaN == [nan |-> TRUE, m |-> 0, e |-> 0]

RECURSIVE Norm(_, _)
\* The number m * 10^e in normal form.
Norm(m, e) ==
  IF m = 0 THEN [nan |-> FALSE, m |-> 0, e |-> 0]
  ELSE IF m % 10 = 0 THEN Norm(m \div 10, e + 1)
  ELSE [nan |-> FALSE, m |-> m, e |-> e]

\* The integer n as a number.
Num(n) == Norm(n, 0)

\* x * 10^k.
TimesPow10(x, k) == IF x.nan THEN NaN ELSE Norm(x.m, x.e + k)

\* JavaScript truthiness of a number: neither 0 nor NaN.
Truthy(x) == ~x.nan /\ x.m # 0

\* a || b on numbers.
OrElse(a, b) == IF Truthy(a) THEN a ELSE b

IsInteger(x) == ~x.nan /\ x.e >= 0

IsNegative(x) == ~x.nan /\ x.m < 0

\* Length of the longest prefix of s made of digits.
DigitRun(s) ==
  IF \A k \in 1..Len(s) : s[k] \in Digits THEN Len(s)
  ELSE (CHOOSE k \in 1..Len(s) : s[k] \notin Digits /\ \A j \in 1..(k-1) : s[j] \in Digits) - 1

RECURSIVE DigitsValue(_)
\* The natural number a run of digits denotes (0 for the empty run).
DigitsValue(s) ==
  IF Len(s) = 0 THEN 0
  ELSE 10 * DigitsValue(SubSeq(s, 1, Len(s) - 1)) + DigitVal(s[Len(s)])

\* s without its leading spaces.
RECURSIVE SkipSpaces(_)
SkipSpaces(s) == IF Len(s) > 0 /\ s[1] = " " THEN SkipSpaces(Tail(s)) ELSE s

\* parseInt(s, 10): leading spaces, an optional sign, then the longest run of
\* digits; NaN when that run is empty.  Whatever follows is ignored.
ParseInt(s) ==
  LET t == SkipSpaces(s)
      neg == Len(t) > 0 /\ t[1] = "-"
      u == IF Len(t) > 0 /\ t[1] \in {"-", "+"} THEN Tail(t) ELSE t
      n == DigitRun(u)
  IN IF n = 0 THEN NaN
     ELSE Num((IF neg THEN -1 ELSE 1) * DigitsValue(SubSeq(u, 1, n)))

\* parseFloat(s): leading spaces, an optional sign, digits, an optional point
\* and digits; NaN when neither run holds a digit.  Whatever follows is ignored.
ParseFloat(s) ==
  LET t == SkipSpaces(s)
      neg == Len(t) > 0 /\ t[1] = "-"
      u == IF Len(t) > 0 /\ t[1] \in {"-", "+"} THEN Tail(t) ELSE t
      n == DigitRun(u)
      rest == SubSeq(u, n + 1, Len(u))
      f == IF Len(rest) > 0 /\ rest[1] = "." THEN DigitRun(Tail(rest)) ELSE 0
      frac == IF f = 0 THEN Empty ELSE SubSeq(rest, 2, f + 1)
  IN IF n = 0 /\ f = 0 THEN NaN
     ELSE Norm((IF neg THEN -1 ELSE 1) * DigitsValue(SubSeq(u, 1, n) \o frac), -f)

\* Index at which the first occurrence of the symbol c starts, searching s
\* from position from; 0 when there is none.
IndexFrom(s, c, from) ==
  IF \E k \in from..Len(s) : s[k] = c
  THEN CHOOSE k \in from..Len(s) : s[k] = c /\ \A j \in from..(k-1) : s[j] # c
  ELSE 0

\* The longest prefix of s holding no symbol of stop.
UpTo(s, stop) ==
  IF \A k \in 1..Len(s) : s[k] \notin stop THEN s
  ELSE SubSeq(s, 1, (CHOOSE k \in 1..Len(s) :
                       s[k] \in stop /\ \A j \in 1..(k-1) : s[j] \notin stop) - 1)

\* s.split(c).pop(): the text after the last occurrence of c (s when none).
AfterLast(s, c) ==
  IF ~Includes(s, c) THEN s
  ELSE SubSeq(s, (CHOOSE k \in 1..Len(s) :
                    s[k] = c /\ \A j \in (k+1)..Len(s) : s[j] # c) + 1, Len(s))

\* s.split(c)[0]: the text before the first occurrence of c (s when none).
BeforeFirst(s, c) == UpTo(s, {c})

\* url.split('/').pop()?.split('?')[0] || ''
LastSegment(s) == BeforeFirst(AfterLast(s, "/"), "?")

\* ------------------------------------------------------------ count parsers

\* parseNumberWithUnit of extractWeiboDetail.
ParseNumberWithUnit(text) ==
  IF text = Empty THEN Num(0)
  ELSE IF Includes(text, WAN) THEN TimesPow10(ParseFloat(ReplaceFirst(text, WAN)), 4)
  ELSE IF Includes(text, YI) THEN TimesPow10(ParseFloat(ReplaceFirst(text, YI)), 8)
  ELSE OrElse(ParseInt(ReplaceAll(text, ",")), Num(0))

\* The inline parser of the Weibo listing card (likes, reposts, comments):
\* an element without text leaves the count at 0.
CardCountWeibo(text) ==
  IF text = Empty THEN Num(0)
  ELSE IF Includes(text, WAN) THEN TimesPow10(ParseFloat(ReplaceFirst(text, WAN)), 4)
  ELSE OrElse(ParseInt(ReplaceAll(text, ",")), Num(0))

\* The inline parser of the note listing card (likes): a missing element or an
\* empty text reads as '0'.
CardCountNote(text) ==
  LET likeCountText == IF text = Empty THEN <<"0">> ELSE text
  IN IF Includes(likeCountText, WAN)
     THEN TimesPow10(ParseFloat(ReplaceFirst(likeCountText, WAN)), 4)
     ELSE IF likeCountText # <<ZAN>>
     THEN OrElse(ParseInt(ReplaceAll(likeCountText, ",")), Num(0))
     ELSE Num(0)

\* A count of extractNoteDetail: the text without separators, taken only when it
\* is all digits.
DetailCountNote(text) ==
  LET t == ReplaceAll(text, ",")
  IN IF text # Empty /\ AllDigits(t) THEN ParseInt(t) ELSE Num(0)

\* A comment's like count in extractWeiboDetail.
CommentLikesWeibo(text) ==
  IF text # Empty /\ text # <<ZAN>> THEN ParseNumberWithUnit(text) ELSE Num(0)

\* A comment's like count in extractNoteDetail.
CommentLikesNote(text) ==
  IF text # Empty /\ text # <<ZAN>> /\ AllDigits(text) THEN ParseInt(text) ELSE Num(0)

\* ------------------------------------------------------------------ the DOM

\* An element: its textContent, its src and href attributes ('' when missing)
\* and its outerHTML.  A selector's matches are a sequence of elements in
\* document order.
El(text, src, href, html) == [text |-> text, src |-> src, href |-> href, html |-> html]

TextEl(text) == El(text, Empty, Empty, Empty)
ImgEl(src) == El(Empty, src, Empty, Empty)
LinkEl(text, href) == El(text, Empty, href, Empty)

RECURSIVE TrimLeft(_)
TrimLeft(s) == IF Len(s) > 0 /\ s[1] = " " THEN TrimLeft(Tail(s)) ELSE s

RECURSIVE TrimRight(_)
TrimRight(s) ==
  IF Len(s) > 0 /\ s[Len(s)] = " " THEN TrimRight(SubSeq(s, 1, Len(s) - 1)) ELSE s

\* String.prototype.trim
Trim(s) == TrimRight(TrimLeft(s))

\* document.querySelector(a) || document.querySelector(b): the matches of the
\* first selector that matches at all; at most the first element is used.
FirstOf(a, b) == IF a # << >> THEN a ELSE b

\* document.querySelectorAll(a) || document.querySelectorAll(b): a NodeList is
\* an object, hence truthy even when empty, so the result is always a's list.
AllOf(a, b) == a

\* Whether the pattern p occurs in s starting at position k.
MatchAt(s, p, k) == k >= 1 /\ k + Len(p) - 1 <= Len(s) /\ SubSeq(s, k, k + Len(p) - 1) = p

\* Position of the first occurrence of the pattern p in s, 0 when none.
IndexOfSub(s, p) ==
  IF \E k \in 1..Len(s) : MatchAt(s, p, k)
  THEN CHOOSE k \in 1..Len(s) : MatchAt(s, p, k) /\ \A j \in 1..(k-1) : ~MatchAt(s, p, j)
  ELSE 0

\* The text after the first occurrence of the pattern p (only called when
\* there is one).
AfterSub(s, p) == SubSeq(s, IndexOfSub(s, p) + Len(p), Len(s))

\* Whether /\/<word>\d+\// matches s at position k: a slash, the word, one or
\* more digits, a slash.
SizedAt(s, word, k) ==
  /\ k + 1 <= Len(s) /\ s[k] = "/" /\ s[k + 1] = word
  /\ LET rest == SubSeq(s, k + 2, Len(s))
         n == DigitRun(rest)
     IN n >= 1 /\ Len(rest) > n /\ rest[n + 1] = "/"

\* src.replace(/\/<word>\d+\//, '/large/'): the first match is replaced.
ReplaceSized(s, word) ==
  IF \E k \in 1..Len(s) : SizedAt(s, word, k)
  THEN LET k == CHOOSE k \in 1..Len(s) :
                  SizedAt(s, word, k) /\ \A j \in 1..(k-1) : ~SizedAt(s, word, j)
           n == DigitRun(SubSeq(s, k + 2, Len(s)))
       IN SubSeq(s, 1, k - 1) \o <<"/", "large", "/">> \o SubSeq(s, k + n + 3, Len(s))
  ELSE s

WeiboOrigin == <<"http", "s", ":", "/", "/", "weibo.com">>
NoteOrigin == <<"http", "s", ":", "/", "/", "www.xiaohongshu.com">>

\* href.startsWith('http') ? href : `${origin}${href}`
Absolute(href, origin) == IF StartsWith(href, <<"http">>) THEN href ELSE origin \o href

EmptyAuthor == [id |-> Empty, name |-> Empty, avatar |-> Empty, url |-> Empty]

\* The text of the first element of a match list, trimmed ('' when none).
TextOf(els) == IF els = << >> THEN Empty ELSE Trim(els[1].text)

\* The src attribute of the first element of a match list ('' when none).
SrcOf(els) == IF els = << >> THEN Empty ELSE els[1].src

\* Variant of KeepImage: every element with a src is kept.
KeepAnyImage(src) == src # Empty

\* Whether a URL is kept as an image of the record.
KeepImage(src) == src # Empty /\ ~Includes(src, "avatar") /\ ~Includes(src, "emoji")

\* Weibo: the image URL rewritten to its large rendition.
OriginalSrc(src) == ReplaceSized(ReplaceSized(src, "thumb"), "orj")

\* Weibo: a topic text cleaned of a leading '#', a trailing '#' and whitespace.
CleanTopic(text) ==
  LET t == Trim(text)
      a == IF Len(t) > 0 /\ t[1] = "#" THEN Tail(t) ELSE t
      b == IF Len(a) > 0 /\ a[Len(a)] = "#" THEN SubSeq(a, 1, Len(a) - 1) ELSE a
  IN ReplaceAll(b, " ")

\* Notes: a tag text cleaned of a leading '#' and whitespace.
CleanTag(text) ==
  LET t == Trim(text)
      a == IF Len(t) > 0 /\ t[1] = "#" THEN Tail(t) ELSE t
  IN ReplaceAll(a, " ")

\* ------------------------------------------------------ Weibo detail page

\* The images of extractWeiboDetail: imageElements.forEach over the match list.
WeiboImages(els) ==
  LET kept == SelectSeq(els, LAMBDA img : KeepImage(img.src))
  IN [k \in 1..Len(kept) |-> OriginalSrc(kept[k].src)]

\* The topics of extractWeiboDetail: topicElements.forEach over the match list.
WeiboTopics(els) ==
  LET kept == SelectSeq(els, LAMBDA t : t.text # Empty /\ CleanTopic(t.text) # Empty)
  IN [k \in 1..Len(kept) |-> CleanTopic(kept[k].text)]

\* author.url.match(/\/u\/([^?/]+)/): the user id of a profile URL, '' when
\* the URL has no such segment.
WeiboUserId(url) ==
  IF IndexOfSub(url, <<"/", "u", "/">>) = 0 THEN Empty
  ELSE UpTo(AfterSub(url, <<"/", "u", "/">>), {"?", "/"})

\* The author of extractWeiboDetail.
WeiboDetailAuthor(doc) ==
  LET authorEl == FirstOf(doc.Profile_name, doc.WB_info_a)
      avatarEl == FirstOf(doc.Profile_avatar_img, doc.WB_face_img)
      url == IF authorEl = << >> THEN Empty ELSE Absolute(authorEl[1].href, WeiboOrigin)
  IN [id |-> WeiboUserId(url),
      name |-> TextOf(authorEl),
      avatar |-> SrcOf(avatarEl),
      url |-> url]

\* One interaction count of extractWeiboDetail: 0 unless the element exists
\* and has text.
WeiboDetailCount(els) ==
  IF els # << >> /\ els[1].text # Empty THEN ParseNumberWithUnit(Trim(els[1].text))
  ELSE Num(0)

\* One comment item of extractWeiboDetail.
WeiboComment(item) ==
  LET likesEl == FirstOf(item.Comment_like, item.WB_handle_like)
  IN [content |-> TextOf(FirstOf(item.Comment_text, item.WB_text)),
      author |-> TextOf(FirstOf(item.Comment_name, item.WB_text_a)),
      time |-> TextOf(FirstOf(item.Comment_time, item.WB_from_span)),
      likes |-> IF likesEl # << >> /\ likesEl[1].text # Empty
                THEN CommentLikesWeibo(Trim(likesEl[1].text)) ELSE Num(0)]

\* The comment list of extractWeiboDetail: commentItems.forEach, a comment
\* without content is dropped.
WeiboComments(items) ==
  LET kept == SelectSeq(items, LAMBDA it : WeiboComment(it).content # Empty)
  IN [k \in 1..Len(kept) |-> WeiboComment(kept[k])]

\* extractWeiboDetail(page): what page.evaluate returns for the document doc.
ExtractWeiboDetail(doc) ==
  LET weiboContainer == FirstOf(doc.Feed_body, doc.WB_detail)
  IN [content |-> TextOf(FirstOf(doc.detail_wbtext, doc.WB_text)),
      htmlContent |-> IF weiboContainer = << >> THEN Empty ELSE weiboContainer[1].html,
      images |-> WeiboImages(AllOf(doc.picture_pic, doc.WB_media_img)),
      topics |-> WeiboTopics(AllOf(doc.topic_k, doc.a_topic)),
      author |-> WeiboDetailAuthor(doc),
      interactions |->
        [likes |-> WeiboDetailCount(FirstOf(doc.like_num, doc.like_status)),
         reposts |-> WeiboDetailCount(FirstOf(doc.repost_num, doc.forward_btn_text)),
         comments |-> WeiboDetailCount(FirstOf(doc.comment_num, doc.comment_btn_text))],
      commentList |-> WeiboComments(AllOf(doc.Comment_content, doc.WB_comment_li))]

\* ------------------------------------------------------- note detail page

\* The images of extractNoteDetail.
NoteImages(els) ==
  LET kept == SelectSeq(els, LAMBDA img : KeepImage(img.src))
  IN [k \in 1..Len(kept) |-> kept[k].src]

\* The tags of extractNoteDetail: a tag whose text holds the author label is
\* skipped ("AUTHOR" stands for that two-character label).
NoteTags(els) ==
  LET kept == SelectSeq(els, LAMBDA t : /\ t.text # Empty
                                        /\ ~Includes(t.text, "AUTHOR")
                                        /\ CleanTag(t.text) # Empty)
  IN [k \in 1..Len(kept) |-> CleanTag(kept[k].text)]

\* author.url.match(/profile\/([^?]+)/): the user id of a profile URL.
NoteUserId(url) ==
  IF IndexOfSub(url, <<"profile", "/">>) = 0 THEN Empty
  ELSE UpTo(AfterSub(url, <<"profile", "/">>), {"?"})

\* The author of extractNoteDetail.  The element's closest('a') is modelled by
\* the element's own href: '' when it has no enclosing link.
NoteDetailAuthor(doc) ==
  LET authorEl == FirstOf(doc.author_name, doc.author_username)
      avatarEl == FirstOf(doc.author_img, doc.avatar_item)
      url == IF authorEl = << >> THEN Empty ELSE authorEl[1].href
  IN [id |-> NoteUserId(url),
      name |-> TextOf(authorEl),
      avatar |-> SrcOf(avatarEl),
      url |-> url]

\* One interaction count of extractNoteDetail, read inside the interaction bar.
NoteBarCount(bar, els) ==
  IF bar # << >> /\ els # << >> /\ els[1].text # Empty
  THEN DetailCountNote(Trim(els[1].text))
  ELSE Num(0)

\* One comment item of extractNoteDetail.
NoteComment(item) ==
  [content |-> TextOf(item.content),
   author |-> TextOf(item.author_name),
   time |-> TextOf(item.date_span),
   likes |-> IF item.like_count # << >> /\ item.like_count[1].text # Empty
             THEN CommentLikesNote(Trim(item.like_count[1].text)) ELSE Num(0)]

\* The comment list of extractNoteDetail.
NoteComments(items) ==
  LET kept == SelectSeq(items, LAMBDA it : NoteComment(it).content # Empty)
  IN [k \in 1..Len(kept) |-> NoteComment(kept[k])]

\* extractNoteDetail(page): what page.evaluate returns for the document doc.
ExtractNoteDetail(doc) ==
  LET noteContainer == FirstOf(doc.noteContainer, doc.note_container)
      titleEl == FirstOf(doc.detail_title, FirstOf(doc.title, doc.h1))
      contentEl == FirstOf(doc.detail_desc,
                           FirstOf(doc.desc, FirstOf(doc.content, doc.note_content)))
      interactionBar == FirstOf(doc.engage_bar, doc.buttons)
  IN [title |-> TextOf(titleEl),
      content |-> TextOf(contentEl),
      htmlContent |-> IF noteContainer = << >> THEN Empty ELSE noteContainer[1].html,
      images |-> NoteImages(AllOf(doc.note_slider_img,
                                  AllOf(doc.media_container_img, doc.img_container_img))),
      tags |-> NoteTags(AllOf(doc.tag, doc.hash_tag)),
      author |-> NoteDetailAuthor(doc),
      interactions |->
        [likes |-> NoteBarCount(interactionBar, doc.like_count),
         collects |-> NoteBarCount(interactionBar, doc.collect_count),
         comments |-> NoteBarCount(interactionBar, doc.chat_count)],
      commentList |-> NoteComments(doc.comment_item)]

\* ------------------------------------------------------------ listing cards

\* a || b on strings: '' is falsy.
OrText(a, b) == IF a # Empty THEN a ELSE b

\* One interaction count of a Weibo listing card.
WeiboCardCount(els) ==
  IF els # << >> /\ els[1].text # Empty THEN CardCountWeibo(Trim(els[1].text)) ELSE Num(0)

\* The summary record fetchLatestWeibo builds from one .Feed_item card.  The
\* name element carries the href of its parent (parentHref) and the href of
\* its closest enclosing link (href).
SummaryWeibo(card) ==
  LET linkElement == card.head_name
      parentLink == IF linkElement = << >> THEN Empty ELSE linkElement[1].parentHref
      authorUrl == IF linkElement = << >> THEN Empty ELSE linkElement[1].href
  IN [id |-> IF card.Feed_card = << >> THEN Empty ELSE card.Feed_card[1].mid,
      content |-> TextOf(card.detail_wbtext),
      coverImage |-> SrcOf(card.picture_pic),
      publishTime |-> TextOf(card.head_time),
      likes |-> WeiboCardCount(card.like_num),
      reposts |-> WeiboCardCount(card.repost_num),
      comments |-> WeiboCardCount(card.comment_num),
      url |-> IF parentLink # Empty THEN Absolute(parentLink, WeiboOrigin) ELSE Empty,
      htmlContent |-> Empty,
      images |-> << >>,
      topics |-> << >>,
      commentList |-> << >>,
      author |-> [id |-> IF authorUrl # Empty THEN LastSegment(authorUrl) ELSE Empty,
                  name |-> TextOf(linkElement),
                  avatar |-> SrcOf(card.head_avatar_img),
                  url |-> Absolute(authorUrl, WeiboOrigin)]]

\* The summary record fetchLatestNotes builds from one section.note-item card.
\* The link element carries the src of the image inside it.
SummaryNote(card) ==
  LET linkElement == FirstOf(card.cover, card.second_a)
      href == IF linkElement = << >> THEN Empty ELSE linkElement[1].href
      url == IF href # Empty THEN Absolute(href, NoteOrigin) ELSE Empty
      title == TextOf(card.title_span)
      authorUrl == IF card.author_link = << >> THEN Empty ELSE card.author_link[1].href
  IN [id |-> IF url # Empty THEN LastSegment(url) ELSE Empty,
      title |-> title,
      summary |-> title,
      coverImage |-> SrcOf(linkElement),
      publishTime |-> Empty,
      likes |-> CardCountNote(TextOf(card.like_count)),
      collects |-> Num(0),
      comments |-> Num(0),
      url |-> url,
      fullContent |-> Empty,
      htmlContent |-> Empty,
      images |-> << >>,
      tags |-> << >>,
      commentList |-> << >>,
      author |-> [id |-> IF authorUrl # Empty THEN LastSegment(authorUrl) ELSE Empty,
                  name |-> TextOf(card.author_name),
                  avatar |-> SrcOf(card.author_avatar),
                  url |-> Absolute(authorUrl, NoteOrigin)]]

\* weiboItems.slice(0, limitParam).map(...): the first limit cards, in document
\* order.
Slice(items, lim) == SubSeq(items, 1, IF lim < Len(items) THEN lim ELSE Len(items))

\* ------------------------------------------------------------------- merge

\* Variant of MergeAuthor: the detail author always wins.
MergeAuthorAlwaysDetail(cardAuthor, detailAuthor) == detailAuthor

\* The author of the merged record: the detail author when it has an id.
MergeAuthor(cardAuthor, detailAuthor) ==
  IF detailAuthor.id # Empty THEN detailAuthor ELSE cardAuthor

\* Variant of MergeCount: the detail count always wins, zero included.
MergeCountAlwaysDetail(cardCount, detailCount) == detailCount

\* An interaction count of the merged record: detail || card.
MergeCount(cardCount, detailCount) == OrElse(detailCount, cardCount)

\* fetchLatestWeibo: the record built from a card and its extracted detail.
MergeWeibo(card, weiboDetail) ==
  [card EXCEPT
     !.content = OrText(weiboDetail.content, card.content),
     !.htmlContent = weiboDetail.htmlContent,
     !.images = weiboDetail.images,
     !.topics = weiboDetail.topics,
     !.likes = MergeCount(card.likes, weiboDetail.interactions.likes),
     !.reposts = MergeCount(card.reposts, weiboDetail.interactions.reposts),
     !.comments = MergeCount(card.comments, weiboDetail.interactions.comments),
     !.author = MergeAuthor(card.author, weiboDetail.author),
     !.commentList = weiboDetail.commentList]

\* fetchLatestNotes: the record built from a card and its extracted detail.
MergeNote(card, noteDetail) ==
  [card EXCEPT
     !.title = OrText(noteDetail.title, card.title),
     !.fullContent = noteDetail.content,
     !.htmlContent = noteDetail.htmlContent,
     !.images = noteDetail.images,
     !.tags = noteDetail.tags,
     !.likes = MergeCount(card.likes, noteDetail.interactions.likes),
     !.collects = MergeCount(card.collects, noteDetail.interactions.collects),
     !.comments = MergeCount(card.comments, noteDetail.interactions.comments),
     !.author = MergeAuthor(card.author, noteDetail.author),
     !.commentList = noteDetail.commentList]

\* ------------------------------------------------------------ sample pages

Rel(path) == <<"/">> \o path
Abs(host, path) == <<"http", "s", ":", "/", "/", host, "/">> \o path

MidEl(mid) == [text |-> Empty, src |-> Empty, href |-> Empty, html |-> Empty, mid |-> mid]
NameEl(text, parentHref, href) ==
  [text |-> text, src |-> Empty, href |-> href, html |-> Empty, parentHref |-> parentHref]
HtmlEl(html) == El(Empty, Empty, Empty, html)
LinkImgEl(href, src) == El(Empty, src, href, Empty)

\* A Weibo listing card in which no selector matches.
BlankWeiboCard ==
  [Feed_card |-> << >>, head_name |-> << >>, detail_wbtext |-> << >>,
   picture_pic |-> << >>, head_time |-> << >>, head_avatar_img |-> << >>,
   like_num |-> << >>, repost_num |-> << >>, comment_num |-> << >>]

\* The Weibo listing cards a document is built from: a card with a relative
\* link, a card without the name element (no url, no author) and a card with
\* an absolute link and the like label in place of a count.
WeiboCardPool ==
  { [BlankWeiboCard EXCEPT
       !.Feed_card = <<MidEl(<<"m", "1">>)>>,
       !.head_name = <<NameEl(<<" ", "A", "n", "n", " ">>, Rel(<<"7", "/", "P", "a">>),
                              Rel(<<"u", "/", "7">>))>>,
       !.detail_wbtext = <<TextEl(<<"h", "i">>)>>,
       !.picture_pic = <<ImgEl(Rel(<<"thumb", "1", "5", "0", "/", "c", "1">>))>>,
       !.head_time = <<TextEl(<<"1", "0", ":", "0", "0">>)>>,
       !.head_avatar_img = <<ImgEl(Rel(<<"avatar", "/", "7">>))>>,
       !.like_num = <<TextEl(<<"1", "2">>)>>,
       !.comment_num = <<TextEl(<<"3">>)>>],
    [BlankWeiboCard EXCEPT
       !.Feed_card = <<MidEl(<<"m", "2">>)>>,
       !.detail_wbtext = <<TextEl(<<"h", "o">>)>>,
       !.like_num = <<TextEl(<<"1", WAN>>)>>,
       !.repost_num = <<TextEl(<<"4">>)>>],
    [BlankWeiboCard EXCEPT
       !.head_name = <<NameEl(<<"B", "o">>, Abs("weibo.com", <<"8", "/", "Q", "?", "f">>),
                              Abs("weibo.com", <<"8", "?", "f">>))>>,
       !.like_num = <<TextEl(<<ZAN>>)>>,
       !.repost_num = <<TextEl(<<"1", ",", "2", "3", "4">>)>>,
       !.comment_num = <<TextEl(<<" ", "5", " ">>)>>] }

\* A Weibo detail document in which no selector matches (a blank page, an
\* error page, a login wall).
BlankWeiboDoc ==
  [Feed_body |-> << >>, WB_detail |-> << >>, detail_wbtext |-> << >>, WB_text |-> << >>,
   picture_pic |-> << >>, WB_media_img |-> << >>, topic_k |-> << >>, a_topic |-> << >>,
   Profile_name |-> << >>, WB_info_a |-> << >>,
   Profile_avatar_img |-> << >>, WB_face_img |-> << >>,
   like_num |-> << >>, like_status |-> << >>,
   repost_num |-> << >>, forward_btn_text |-> << >>,
   comment_num |-> << >>, comment_btn_text |-> << >>,
   Comment_content |-> << >>, WB_comment_li |-> << >>]

BlankWeiboComment ==
  [Comment_text |-> << >>, WB_text |-> << >>, Comment_name |-> << >>, WB_text_a |-> << >>,
   Comment_time |-> << >>, WB_from_span |-> << >>,
   Comment_like |-> << >>, WB_handle_like |-> << >>]

\* A detail page in the current markup, with an author whose profile URL holds
\* a user id.
WeiboDocCurrent ==
  [BlankWeiboDoc EXCEPT
     !.Feed_body = <<HtmlEl(<<"<", "d", ">">>)>>,
     !.detail_wbtext = <<TextEl(<<" ", "l", "o", "n", "g", " ">>)>>,
     !.picture_pic = <<ImgEl(Rel(<<"thumb", "1", "5", "0", "/", "p", "1">>)),
                       ImgEl(Rel(<<"avatar", "/", "9">>)),
                       ImgEl(Rel(<<"orj", "3", "6", "0", "/", "p", "2">>))>>,
     !.topic_k = <<TextEl(<<" ", "#", "A", "I", " ", "x", "#", " ">>), TextEl(<<"#">>)>>,
     !.Profile_name = <<LinkEl(<<"C", "y">>, Rel(<<"u", "/", "9", "?", "t">>))>>,
     !.Profile_avatar_img = <<ImgEl(Rel(<<"avatar", "/", "9">>))>>,
     !.like_num = <<TextEl(<<"2", ".", "5", WAN>>)>>,
     !.repost_num = <<TextEl(<<"0">>)>>,
     !.Comment_content =
        <<[BlankWeiboComment EXCEPT
             !.Comment_text = <<TextEl(<<"o", "k">>)>>,
             !.Comment_name = <<TextEl(<<"D">>)>>,
             !.Comment_like = <<TextEl(<<ZAN>>)>>],
          [BlankWeiboComment EXCEPT !.Comment_name = <<TextEl(<<"E">>)>>]>>]

\* A detail page in the legacy markup: the author's profile URL holds no user
\* id, one count is a bare magnitude marker.
WeiboDocLegacy ==
  [BlankWeiboDoc EXCEPT
     !.WB_detail = <<HtmlEl(<<"<", "v", ">">>)>>,
     !.WB_media_img = <<ImgEl(Rel(<<"p", "3">>))>>,
     !.a_topic = <<TextEl(<<"#", "t", "#">>)>>,
     !.WB_info_a = <<LinkEl(<<"F">>, Rel(<<"n", "/", "F">>))>>,
     !.WB_face_img = <<ImgEl(Rel(<<"f", "a", "c", "e">>))>>,
     !.like_status = <<TextEl(<<WAN>>)>>,
     !.forward_btn_text = <<TextEl(<<"3", YI>>)>>,
     !.comment_btn_text = <<TextEl(<<"-", "2">>)>>,
     !.WB_comment_li =
        <<[BlankWeiboComment EXCEPT !.WB_text = <<TextEl(<<"h", "m">>)>>]>>]

\* The documents a Weibo detail page may hold when it is read.
WeiboDocPool == {BlankWeiboDoc, WeiboDocCurrent, WeiboDocLegacy}

\* A note listing card in which no selector matches.
BlankNoteCard ==
  [cover |-> << >>, second_a |-> << >>, title_span |-> << >>, author_name |-> << >>,
   author_link |-> << >>, author_avatar |-> << >>, like_count |-> << >>]

\* The note listing cards a document is built from: a card with a relative
\* cover link, a card without any link (no url) and a card whose link is the
\* second anchor, absolute, with the like label in place of a count.
NoteCardPool ==
  { [BlankNoteCard EXCEPT
       !.cover = <<LinkImgEl(Rel(<<"e", "/", "n", "1", "?", "s">>), Rel(<<"c", "1">>))>>,
       !.title_span = <<TextEl(<<" ", "t", "1", " ">>)>>,
       !.author_name = <<TextEl(<<"A", "n", "n">>)>>,
       !.author_link = <<LinkEl(Empty, Rel(<<"user", "/", "profile", "/", "7", "?", "c">>))>>,
       !.author_avatar = <<ImgEl(Rel(<<"avatar", "/", "7">>))>>,
       !.like_count = <<TextEl(<<"1", "2">>)>>],
    [BlankNoteCard EXCEPT
       !.title_span = <<TextEl(<<"t", "2">>)>>,
       !.author_name = <<TextEl(<<"B", "o">>)>>,
       !.like_count = <<TextEl(<<"1", ".", "5", WAN>>)>>],
    [BlankNoteCard EXCEPT
       !.second_a = <<LinkImgEl(Abs("www.xiaohongshu.com", <<"e", "/", "n", "3">>), Empty)>>,
       !.author_link = <<LinkEl(Empty, Abs("www.xiaohongshu.com", <<"profile", "/", "8">>))>>,
       !.like_count = <<TextEl(<<ZAN>>)>>] }

\* A note detail document in which no selector matches.
BlankNoteDoc ==
  [noteContainer |-> << >>, note_container |-> << >>,
   detail_title |-> << >>, title |-> << >>, h1 |-> << >>,
   detail_desc |-> << >>, desc |-> << >>, content |-> << >>, note_content |-> << >>,
   note_slider_img |-> << >>, media_container_img |-> << >>, img_container_img |-> << >>,
   tag |-> << >>, hash_tag |-> << >>,
   author_name |-> << >>, author_username |-> << >>,
   author_img |-> << >>, avatar_item |-> << >>,
   engage_bar |-> << >>, buttons |-> << >>,
   like_count |-> << >>, collect_count |-> << >>, chat_count |-> << >>,
   comment_item |-> << >>]

BlankNoteComment ==
  [content |-> << >>, author_name |-> << >>, date_span |-> << >>, like_count |-> << >>]

\* A note detail page in the current markup, with an author whose profile URL
\* holds a user id.
NoteDocCurrent ==
  [BlankNoteDoc EXCEPT
     !.noteContainer = <<HtmlEl(<<"<", "d", ">">>)>>,
     !.detail_title = <<TextEl(<<" ", "T", " ">>)>>,
     !.detail_desc = <<TextEl(<<"l", "o", "n", "g">>)>>,
     !.note_slider_img = <<ImgEl(Rel(<<"p", "1">>)), ImgEl(Rel(<<"emoji", "/", "1">>))>>,
     !.tag = <<TextEl(<<" ", "#", "A", "I", " ", "x", " ">>), TextEl(<<"AUTHOR">>)>>,
     !.author_name = <<LinkEl(<<"C", "h">>, Rel(<<"user", "/", "profile", "/", "9", "?", "t">>))>>,
     !.author_img = <<ImgEl(Rel(<<"avatar", "/", "9">>))>>,
     !.engage_bar = <<TextEl(Empty)>>,
     !.like_count = <<TextEl(<<"1", ",", "2", "3", "4">>)>>,
     !.collect_count = <<TextEl(<<"0">>)>>,
     !.chat_count = <<TextEl(<<"2", ".", "5", WAN>>)>>,
     !.comment_item =
        <<[BlankNoteComment EXCEPT
             !.content = <<TextEl(<<"o", "k">>)>>,
             !.author_name = <<TextEl(<<"D">>)>>,
             !.like_count = <<TextEl(<<"4">>)>>],
          [BlankNoteComment EXCEPT !.author_name = <<TextEl(<<"E">>)>>]>>]

\* A note detail page in the alternate markup: the author has no enclosing
\* profile link, the counts stand outside any interaction bar.
NoteDocLegacy ==
  [BlankNoteDoc EXCEPT
     !.note_container = <<HtmlEl(<<"<", "v", ">">>)>>,
     !.h1 = <<TextEl(<<"H">>)>>,
     !.note_content = <<TextEl(<<"b", "o", "d", "y">>)>>,
     !.media_container_img = <<ImgEl(Rel(<<"p", "3">>))>>,
     !.hash_tag = <<TextEl(<<"#", "t">>)>>,
     !.author_username = <<TextEl(<<"F">>)>>,
     !.avatar_item = <<ImgEl(Rel(<<"f", "a", "c", "e">>))>>,
     !.buttons = <<TextEl(Empty)>>,
     !.collect_count = <<TextEl(<<"3", "1">>)>>]

\* The documents a note detail page may hold when it is read.
NoteDocPool == {BlankNoteDoc, NoteDocCurrent, NoteDocLegacy}

\* ------------------------------------------------------------------- state

VARIABLES
  op,             \* the exported operation that is running
  pc,             \* the statement the operation is at
  limit,          \* fetchLatest*: the limit argument
  listing,        \* fetchLatest*: the cards of the listing document, in order
  cards,          \* weiboCards / noteCards: the enumerated summary records
  i,              \* the loop index of the enrichment loop (1-based)
  completePosts,  \* completePosts / completeNotes
  pageDoc,        \* the document the current detail page holds
  browser,        \* "none", "open" or "closed"
  closeCount,     \* how many times browser.close() was called
  listingPage,    \* whether the page opened by the operation is open
  detailPages,    \* the loop indices whose detail page is open
  result,         \* what the operation hands to its caller
  failedStep,     \* history: the step whose exception the outer catch caught
  navFailed,      \* history: the loop indices whose detail navigation failed
  pushLog,        \* history: the loop index and statement of every push, in order
  opened,         \* history: how many detail pages were ever opened
  options,        \* post*: the options argument (what it supplies)
  tagsLeft,       \* postXiaohongshu: the tags the for-of loop has yet to add
  uiLog,          \* history: the interactions with the page, in order
  token,          \* the text token handed to the count parser
  parsed,         \* what the count parser returned for it
  cookieString,   \* setupCookies: the raw cookie string
  cookies,        \* setupCookies: the object parseCookieString returned
  currentCookies, \* setupCookies: what browser.cookies() returned
  toSet,          \* setupCookies: index of the entry the for-of loop is at
  jar,            \* the cookies of the browser
  jar0,           \* history: the cookies of the browser when setupCookies began
  cookieLog,      \* history: the calls made on the browser and the page, in order
  wait,           \* waitForSelector: its arguments, the page and its outcome
  norm,           \* tag normalisation: a tag text and what the extractors store for it
  digest,        \* the summary formatter: a walk's result and the digest made of it
  scroll,        \* autoScroll: the interval callback's counters and the document height
  crawler,       \* crawl: its position, browser, page and completion
  word,          \* readWordContent: the clock, the temp directory and the calls in flight
  desktop        \* getDesktopFiles: the Desktop tree, the options and the list returned

runVars == <<op, pc, browser, closeCount, listingPage, result, failedStep>>
walkVars == <<limit, listing, cards, i, completePosts, pageDoc, detailPages,
              navFailed, pushLog, opened>>
postVars == <<options, tagsLeft, uiLog>>
numVars == <<token, parsed>>
cookieVars == <<cookieString, cookies, currentCookies, toSet, jar, jar0, cookieLog>>
toolVars == <<norm, digest, scroll, crawler, word, desktop>>
helperVars == <<cookieVars, wait, toolVars>>
vars == <<runVars, walkVars, postVars, numVars, helperVars>>

Walks == {"fetchLatestWeibo", "fetchLatestNotes"}
\* postWeibo exists twice: in weibo.ts and, without the image button, in
\* weiboSubmit.ts.
WeiboPosts == {"postWeibo", "weiboSubmit.postWeibo"}
Posts == WeiboPosts \cup {"postXiaohongshu"}

\* Most tags a note is posted with.
MaxTags == 1

\* The options a post operation is called with: whether images, a location and
\* how many tags are supplied (postWeibo reads the images only).
PostOptions(o) ==
  IF o \in WeiboPosts
  THEN {[images |-> b, tags |-> 0, location |-> FALSE] : b \in BOOLEAN}
  ELSE [images : BOOLEAN, tags : 0..MaxTags, location : BOOLEAN]

NoOptions == [images |-> FALSE, tags |-> 0, location |-> FALSE]

IsWalk == op \in Walks

CardPool(o) == IF o = "fetchLatestWeibo" THEN WeiboCardPool ELSE NoteCardPool
DocPool(o) == IF o = "fetchLatestWeibo" THEN WeiboDocPool ELSE NoteDocPool
BlankDoc(o) == IF o = "fetchLatestWeibo" THEN BlankWeiboDoc ELSE BlankNoteDoc

\* The summary record of a listing card, per platform.
Summary(o, card) == IF o = "fetchLatestWeibo" THEN SummaryWeibo(card) ELSE SummaryNote(card)

\* The merged record of a card and the detail document, per platform.
Enriched(o, card, doc) ==
  IF o = "fetchLatestWeibo" THEN MergeWeibo(card, ExtractWeiboDetail(doc))
  ELSE MergeNote(card, ExtractNoteDetail(doc))

\* No token has been parsed.
Unparsed ==
  [done |-> FALSE, value |-> Num(0), cardWeibo |-> Num(0), cardNote |-> Num(0),
   detailNote |-> Num(0), commentWeibo |-> Num(0), commentNote |-> Num(0)]

Pending == [state |-> "pending", success |-> FALSE, posts |-> << >>, error |-> ""]

\* The listings a document may hold: up to MaxCards cards of the pool.
Listings(o) == UNION {[1..n -> CardPool(o)] : n \in 0..MaxCards}

\* No call of waitForSelector is under way.
NoWait ==
  [selector |-> "", timeout |-> 0, appearsAt |-> 0, state |-> "idle",
   failure |-> "", gone |-> FALSE, outcome |-> "none", logged |-> FALSE]

\* No tag text has been normalised.
NoNorm == [text |-> << >>, weibo |-> << >>, note |-> << >>, done |-> FALSE]

\* No result has been formatted.
NoDigest == [platform |-> "", success |-> FALSE, records |-> << >>, out |-> << >>,
             returned |-> "pending"]

\* autoScroll is not running.
NoScroll == [pos |-> "idle", totalHeight |-> 0, scrollHeight |-> 0, read |-> 0,
             ticks |-> 0, loading |-> FALSE]

\* crawl is not running.
NoCrawl == [pos |-> "idle", url |-> "", browser |-> "none", page |-> "none",
            pending |-> "none", error |-> "", outcome |-> "pending"]

\* readWordContent is not running.
NoWord == [now |-> 0, files |-> {}, calls |-> << >>]

\* getDesktopFiles is not running.
NoDesktop == [tree |-> << >>, includeHidden |-> FALSE, recursive |-> FALSE, filter |-> "",
              result |-> << >>, done |-> FALSE]

\* Every helper but the one named v is idle.
IdleBut(v) ==
  /\ IF v = "norm" THEN TRUE ELSE norm = NoNorm
  /\ IF v = "digest" THEN TRUE ELSE digest = NoDigest
  /\ IF v = "scroll" THEN TRUE ELSE scroll = NoScroll
  /\ IF v = "crawler" THEN TRUE ELSE crawler = NoCrawl
  /\ IF v = "word" THEN TRUE ELSE word = NoWord
  /\ IF v = "desktop" THEN TRUE ELSE desktop = NoDesktop

\* setupCookies and waitForSelector are not running.
HelpersIdle ==
  /\ IdleBut("")
  /\ cookieString = Empty
  /\ cookies = << >>
  /\ currentCookies = {}
  /\ toSet = 1
  /\ jar = {}
  /\ jar0 = {}
  /\ cookieLog = << >>
  /\ wait = NoWait

Init ==
  /\ op \in Walks \cup Posts
  /\ pc = "launch"
  /\ HelpersIdle
  /\ limit \in (IF op \in Walks THEN 0..MaxLimit ELSE {0})
  /\ listing \in (IF op \in Walks THEN Listings(op) ELSE {<< >>})
  /\ options \in (IF op \in Posts THEN PostOptions(op) ELSE {NoOptions})
  /\ tagsLeft = options.tags
  /\ uiLog = << >>
  /\ token = Empty
  /\ parsed = Unparsed
  /\ cards = << >>
  /\ i = 1
  /\ completePosts = << >>
  /\ pageDoc = BlankDoc(op)
  /\ browser = "none"
  /\ closeCount = 0
  /\ listingPage = FALSE
  /\ detailPages = {}
  /\ result = Pending
  /\ failedStep = ""
  /\ navFailed = {}
  /\ pushLog = << >>
  /\ opened = 0

\* ------------------------------------------------------ the outer try block

\* Variant of Caught: the catch block returns its failure result at once and the
\* finally block never runs.
CaughtWithoutFinally(step) ==
  /\ result' = [Pending EXCEPT !.state = "returned", !.error = step]
  /\ failedStep' = step
  /\ pc' = "done"

\* An exception raised inside the outer try: the catch block builds the failure
\* result from error.message, then the finally block runs.
Caught(step) ==
  /\ result' = [Pending EXCEPT !.error = step]
  /\ failedStep' = step
  /\ pc' = "finally"

\* puppeteer.launch(...), before the try block: a failure rejects the promise
\* of the operation.
Launch ==
  /\ pc = "launch"
  /\ \/ /\ browser' = "open"
        /\ pc' = "newPage"
        /\ UNCHANGED <<result, failedStep>>
     \/ /\ result' = [Pending EXCEPT !.state = "raised", !.error = "launch"]
        /\ failedStep' = "launch"
        /\ pc' = "done"
        /\ UNCHANGED browser
  /\ UNCHANGED <<helperVars, numVars, postVars, op, closeCount, listingPage, walkVars>>

\* const page = await browser.newPage()
NewPage ==
  /\ pc = "newPage"
  /\ \/ /\ listingPage' = TRUE
        /\ pc' = "setupCookies"
        /\ UNCHANGED <<result, failedStep>>
     \/ /\ Caught("newPage")
        /\ UNCHANGED listingPage
  /\ UNCHANGED <<helperVars, numVars, postVars, op, browser, closeCount, walkVars>>

\* await setupCookies(page, cookie)
SetupCookies ==
  /\ pc = "setupCookies"
  /\ \/ /\ pc' = "goto"
        /\ UNCHANGED <<result, failedStep>>
     \/ Caught("setupCookies")
  /\ UNCHANGED <<helperVars, numVars, postVars, op, browser, closeCount, listingPage, walkVars>>

\* The statement after the navigation, per operation.
AfterGoto(o) ==
  CASE o \in Walks -> "autoScroll"
    [] o \in WeiboPosts -> "publishBox"
    [] o = "postXiaohongshu" -> "toPublishBtn"

\* Variant of Goto: a failed navigation is swallowed and the operation goes on
\* with whatever the page holds.
GotoSwallowsFailure ==
  /\ pc = "goto"
  /\ pc' = AfterGoto(op)
  /\ \/ UNCHANGED failedStep
     \/ failedStep' = "goto"
  /\ UNCHANGED <<helperVars, numVars, postVars, op, browser, closeCount, listingPage, result, walkVars>>

\* await page.goto(HOME_URL / PUBLISH_URL / PAGE_URL, ...), then the fixed delay
Goto ==
  /\ pc = "goto"
  /\ \/ /\ pc' = AfterGoto(op)
        /\ UNCHANGED <<result, failedStep>>
     \/ Caught("goto")
  /\ UNCHANGED <<helperVars, numVars, postVars, op, browser, closeCount, listingPage, walkVars>>

\* await autoScroll(page)
AutoScroll ==
  /\ pc = "autoScroll"
  /\ \/ /\ pc' = "evaluate"
        /\ UNCHANGED <<result, failedStep>>
     \/ Caught("autoScroll")
  /\ UNCHANGED <<helperVars, numVars, postVars, op, browser, closeCount, listingPage, walkVars>>

\* const weiboCards = await page.evaluate(..., limit)
Enumerate ==
  /\ pc = "evaluate"
  /\ \/ /\ cards' = [k \in 1..Len(Slice(listing, limit)) |-> Summary(op, listing[k])]
        /\ pc' = "loop"
        /\ UNCHANGED <<result, failedStep>>
     \/ /\ Caught("evaluate")
        /\ UNCHANGED cards
  /\ UNCHANGED <<helperVars, numVars, postVars, op, browser, closeCount, listingPage, limit, listing, i, completePosts,
                 pageDoc, detailPages, navFailed, pushLog, opened>>

\* ------------------------------------------------------ the enrichment loop

\* completePosts.push(record) in iteration i; how names the push statement:
\* "nourl" (the card has no url), "merged" (after extraction), "extractError"
\* (the inner catch) or "catch" (the catch of the per-item try).
Push(record, how) ==
  /\ completePosts' = Append(completePosts, record)
  /\ pushLog' = Append(pushLog, [item |-> i, how |-> how])

\* The catch block of the per-item try: the card is pushed and the loop goes on
\* with the next item.
CaughtItem ==
  /\ Push(cards[i], "catch")
  /\ i' = i + 1
  /\ pc' = "loop"

\* for (let i = 0; i < weiboCards.length; i++): the loop test, then the check
\* of the card's url; after the loop, the return statement.
LoopHead ==
  /\ pc = "loop"
  /\ \/ /\ i > Len(cards)
        /\ result' = [Pending EXCEPT !.success = TRUE, !.posts = completePosts]
        /\ pc' = "finally"
        /\ UNCHANGED <<i, completePosts, pushLog>>
     \/ /\ i <= Len(cards)
        /\ cards[i].url = Empty
        /\ Push(cards[i], "nourl")
        /\ i' = i + 1
        /\ UNCHANGED <<pc, result>>
     \/ /\ i <= Len(cards)
        /\ cards[i].url # Empty
        /\ pc' = "detailNewPage"
        /\ UNCHANGED <<i, completePosts, pushLog, result>>
  /\ UNCHANGED <<helperVars, numVars, postVars, op, browser, closeCount, listingPage, failedStep, limit, listing, cards,
                 pageDoc, detailPages, navFailed, opened>>

\* const newPage = await browser.newPage()
DetailNewPage ==
  /\ pc = "detailNewPage"
  /\ \/ /\ detailPages' = detailPages \cup {i}
        /\ opened' = opened + 1
        /\ pc' = "setViewport"
        /\ UNCHANGED <<i, completePosts, pushLog>>
     \/ /\ CaughtItem
        /\ UNCHANGED <<detailPages, opened>>
  /\ UNCHANGED <<helperVars, numVars, postVars, op, browser, closeCount, listingPage, result, failedStep, limit, listing, cards, pageDoc, navFailed>>

\* await newPage.setViewport(...)
SetViewport ==
  /\ pc = "setViewport"
  /\ \/ /\ pc' = "detailGoto"
        /\ UNCHANGED <<i, completePosts, pushLog>>
     \/ CaughtItem
  /\ UNCHANGED <<helperVars, numVars, postVars, op, browser, closeCount, listingPage, result, failedStep, limit, listing, cards, pageDoc, detailPages, navFailed, opened>>

\* try { await newPage.goto(url, ...) } catch (navError) { }, then the fixed
\* delay.  The document the page then holds is the site's choice; after a
\* failed navigation it is whatever had loaded by then.
DetailGoto ==
  /\ pc = "detailGoto"
  /\ pageDoc' \in DocPool(op)
  /\ \/ UNCHANGED navFailed
     \/ navFailed' = navFailed \cup {i}
  /\ pc' = "extract"
  /\ UNCHANGED <<helperVars, numVars, postVars, op, browser, closeCount, listingPage, result, failedStep, limit, listing, cards, i, completePosts, detailPages,
                 pushLog, opened>>

\* Variant of Extract: without the inner try, a failed extraction reaches the
\* catch block of the walk.
ExtractWithoutInnerTry ==
  /\ pc = "extract"
  /\ \/ /\ Push(Enriched(op, cards[i], pageDoc), "merged")
        /\ pc' = "detailClose"
        /\ UNCHANGED <<result, failedStep>>
     \/ /\ Caught("extract")
        /\ UNCHANGED <<completePosts, pushLog>>
  /\ pageDoc' = BlankDoc(op)
  /\ UNCHANGED <<helperVars, numVars, postVars, op, browser, closeCount, listingPage, limit, listing, cards, i, detailPages, navFailed, opened>>

\* try { extract...; merge; push(post) } catch (extractError) { push(card) }
Extract ==
  /\ pc = "extract"
  /\ \/ Push(Enriched(op, cards[i], pageDoc), "merged")
     \/ Push(cards[i], "extractError")
  /\ pageDoc' = BlankDoc(op)
  /\ pc' = "detailClose"
  /\ UNCHANGED <<helperVars, numVars, postVars, op, browser, closeCount, listingPage, result, failedStep, limit, listing, cards, i, detailPages, navFailed, opened>>

\* await newPage.close(), then the fixed delay.  When close() raises, the page
\* may or may not have been closed.
DetailClose ==
  /\ pc = "detailClose"
  /\ \/ /\ detailPages' = detailPages \ {i}
        /\ i' = i + 1
        /\ pc' = "loop"
        /\ UNCHANGED <<completePosts, pushLog>>
     \/ /\ CaughtItem
        /\ detailPages' \in {detailPages, detailPages \ {i}}
  /\ UNCHANGED <<helperVars, numVars, postVars, op, browser, closeCount, listingPage, result, failedStep, limit, listing, cards, pageDoc, navFailed, opened>>

\* finally { await browser.close() }: the session and every page of it are
\* closed, then the operation hands its result to the caller.
Finally ==
  /\ pc = "finally"
  /\ browser' = "closed"
  /\ closeCount' = closeCount + 1
  /\ listingPage' = FALSE
  /\ detailPages' = {}
  /\ result' = [result EXCEPT !.state = "returned"]
  /\ pc' = "done"
  /\ UNCHANGED <<helperVars, numVars, postVars, op, failedStep, limit, listing, cards, i, completePosts, pageDoc,
                 navFailed, pushLog, opened>>



\* ------------------------------------------------------ the post operations

\* The statements of postWeibo after the navigation, in order.  Each is one of
\*   "mandatory": const el = await waitForSelector(...); if (!el) throw ...
\*   "await":     an awaited interaction with the page, which may raise
\* and names the statement that follows it.
WeiboStep(pos, opts) ==
  CASE pos = "publishBox" ->
         [kind |-> "mandatory", what |-> "publishBox", then |-> "clickPublishBox"]
    [] pos = "clickPublishBox" ->
         [kind |-> "await", what |-> "click publishBox", then |-> "typeContent"]
    [] pos = "typeContent" ->
         [kind |-> "await", what |-> "type content",
          then |-> IF opts.images THEN "imageButton" ELSE "submitButton"]
    [] pos = "imageButton" ->
         [kind |-> "mandatory", what |-> "imageButton", then |-> "clickImageButton"]
    [] pos = "clickImageButton" ->
         [kind |-> "await", what |-> "click imageButton", then |-> "uploadInput"]
    [] pos = "uploadInput" ->
         [kind |-> "mandatory", what |-> "uploadInput", then |-> "uploadFile"]
    [] pos = "uploadFile" ->
         [kind |-> "await", what |-> "uploadFile", then |-> "waitForFunction"]
    [] pos = "waitForFunction" ->
         [kind |-> "await", what |-> "picture shown", then |-> "submitButton"]
    [] pos = "submitButton" ->
         [kind |-> "mandatory", what |-> "submitButton", then |-> "clickSubmit"]
    [] pos = "clickSubmit" ->
         [kind |-> "await", what |-> "click submit", then |-> "return"]

\* The statements of postWeibo in weiboSubmit.ts: those of weibo.ts without the
\* image button, the upload input is looked up right after the content.
SubmitStep(pos, opts) ==
  IF pos = "typeContent"
  THEN [kind |-> "await", what |-> "type content",
        then |-> IF opts.images THEN "uploadInput" ELSE "submitButton"]
  ELSE WeiboStep(pos, opts)

\* The statement reached when the tag loop of postXiaohongshu moves on: the
\* next tag's input, or the close button after the last tag.
TagLoop(left) == IF left > 0 THEN "tagInput" ELSE "closeBtn"

AfterTags(opts) == IF opts.location THEN "locationBtn" ELSE "submitBtn"

AfterContent(opts) == IF opts.tags > 0 THEN "tagBtn" ELSE AfterTags(opts)

\* The statements of postXiaohongshu after the navigation, in order.  Besides
\* the kinds of postWeibo:
\*   "optional": const el = await waitForSelector(...); if (el) { ... }
\*               with the statement that follows when the element is absent,
\*   "throw":     the else branch of a condition on the options alone.
\* left is the number of tags the loop has yet to add.
NoteStep(pos, opts, left) ==
  CASE pos = "toPublishBtn" ->
         [kind |-> "await", what |-> "find toPublishBtn", then |-> "clickToPublish"]
    [] pos = "clickToPublish" ->
         [kind |-> "await", what |-> "click toPublishBtn", then |-> "uploadInput"]
    [] pos = "uploadInput" ->
         [kind |-> "mandatory", what |-> "uploadInput", then |-> "uploadFile"]
    [] pos = "uploadFile" ->
         [kind |-> IF opts.images THEN "await" ELSE "throw",
          what |-> "uploadFile", then |-> "waitForFunction"]
    [] pos = "waitForFunction" ->
         [kind |-> "await", what |-> "image shown", then |-> "titleInput"]
    [] pos = "titleInput" ->
         [kind |-> "optional", what |-> "titleInput", then |-> "clickTitle",
          else |-> "contentInput"]
    [] pos = "clickTitle" ->
         [kind |-> "await", what |-> "click title", then |-> "typeTitle"]
    [] pos = "typeTitle" ->
         [kind |-> "await", what |-> "type title", then |-> "contentInput"]
    [] pos = "contentInput" ->
         [kind |-> "optional", what |-> "contentInput", then |-> "clickContent",
          else |-> AfterContent(opts)]
    [] pos = "clickContent" ->
         [kind |-> "await", what |-> "click content", then |-> "typeContent"]
    [] pos = "typeContent" ->
         [kind |-> "await", what |-> "type content", then |-> AfterContent(opts)]
    [] pos = "tagBtn" ->
         [kind |-> "optional", what |-> "tagBtn", then |-> "clickTagBtn",
          else |-> AfterTags(opts)]
    [] pos = "clickTagBtn" ->
         [kind |-> "await", what |-> "click tagBtn", then |-> TagLoop(left)]
    [] pos = "tagInput" ->
         [kind |-> "optional", what |-> "tagInput", then |-> "clickTagInput",
          else |-> TagLoop(left - 1)]
    [] pos = "clickTagInput" ->
         [kind |-> "await", what |-> "click tagInput", then |-> "typeTag"]
    [] pos = "typeTag" ->
         [kind |-> "await", what |-> "type tag", then |-> "tagItem"]
    [] pos = "tagItem" ->
         [kind |-> "optional", what |-> "tagItem", then |-> "clickTagItem",
          else |-> TagLoop(left - 1)]
    [] pos = "clickTagItem" ->
         [kind |-> "await", what |-> "click tagItem", then |-> TagLoop(left - 1)]
    [] pos = "closeBtn" ->
         [kind |-> "optional", what |-> "closeBtn", then |-> "clickCloseBtn",
          else |-> AfterTags(opts)]
    [] pos = "clickCloseBtn" ->
         [kind |-> "await", what |-> "click closeBtn", then |-> AfterTags(opts)]
    [] pos = "locationBtn" ->
         [kind |-> "optional", what |-> "locationBtn", then |-> "clickLocationBtn",
          else |-> "submitBtn"]
    [] pos = "clickLocationBtn" ->
         [kind |-> "await", what |-> "click locationBtn", then |-> "locationInput"]
    [] pos = "locationInput" ->
         [kind |-> "optional", what |-> "locationInput", then |-> "clickLocationInput",
          else |-> "submitBtn"]
    [] pos = "clickLocationInput" ->
         [kind |-> "await", what |-> "click locationInput", then |-> "typeLocation"]
    [] pos = "typeLocation" ->
         [kind |-> "await", what |-> "type location", then |-> "locationItem"]
    [] pos = "locationItem" ->
         [kind |-> "optional", what |-> "locationItem", then |-> "clickLocationItem",
          else |-> "submitBtn"]
    [] pos = "clickLocationItem" ->
         [kind |-> "await", what |-> "click locationItem", then |-> "submitBtn"]
    [] pos = "submitBtn" ->
         [kind |-> "mandatory", what |-> "submitBtn", then |-> "clickSubmit"]
    [] pos = "clickSubmit" ->
         [kind |-> "await", what |-> "click submit", then |-> "return"]

\* The positions that are statements of a post operation.
PostPositions ==
  {"publishBox", "clickPublishBox", "typeContent", "imageButton", "clickImageButton",
   "uploadInput", "uploadFile", "waitForFunction", "submitButton", "clickSubmit",
   "toPublishBtn", "clickToPublish", "titleInput", "clickTitle", "typeTitle",
   "contentInput", "clickContent", "tagBtn", "clickTagBtn", "tagInput", "clickTagInput",
   "typeTag", "tagItem", "clickTagItem", "closeBtn", "clickCloseBtn", "locationBtn",
   "clickLocationBtn", "locationInput", "clickLocationInput", "typeLocation",
   "locationItem", "clickLocationItem", "submitBtn"}

\* The statement the post operation is at.
Step ==
  CASE op = "postWeibo" -> WeiboStep(pc, options)
    [] op = "weiboSubmit.postWeibo" -> SubmitStep(pc, options)
    [] OTHER -> NoteStep(pc, options, tagsLeft)

\* The steps that end an iteration of the tag loop.
EndsTagIteration(pos, found) ==
  \/ pos = "clickTagItem"
  \/ pos \in {"tagInput", "tagItem"} /\ ~found

\* Control moves to statement to; "return" is return { success: true }.
MoveTo(to) ==
  IF to = "return"
  THEN /\ result' = [Pending EXCEPT !.success = TRUE]
       /\ pc' = "finally"
       /\ UNCHANGED failedStep
  ELSE /\ pc' = to
       /\ UNCHANGED <<result, failedStep>>

AtPostStep == op \in Posts /\ pc \in PostPositions

\* An awaited interaction: it succeeds, or raises into the outer catch.
Await ==
  /\ AtPostStep
  /\ Step.kind = "await"
  /\ \/ /\ uiLog' = Append(uiLog, Step.what)
        /\ MoveTo(Step.then)
        /\ tagsLeft' = IF EndsTagIteration(pc, TRUE) THEN tagsLeft - 1 ELSE tagsLeft
     \/ /\ Caught(Step.what)
        /\ UNCHANGED <<uiLog, tagsLeft>>
  /\ UNCHANGED <<helperVars, numVars, op, browser, closeCount, listingPage, walkVars, options>>

\* Variant of Mandatory: when the element is absent the operation notes it and
\* goes on with the next statement.
MandatoryGoesOn ==
  /\ AtPostStep
  /\ Step.kind = "mandatory"
  /\ pc' = Step.then
  /\ \/ UNCHANGED failedStep
     \/ failedStep' = Step.what
  /\ UNCHANGED <<helperVars, numVars, op, browser, closeCount, listingPage, walkVars, options, uiLog, tagsLeft,
                 result>>

\* A mandatory element: waitForSelector returns it, or returns null and the
\* operation throws.
Mandatory ==
  /\ AtPostStep
  /\ Step.kind = "mandatory"
  /\ \/ MoveTo(Step.then)
     \/ Caught(Step.what)
  /\ UNCHANGED <<helperVars, numVars, op, browser, closeCount, listingPage, walkVars, options, uiLog, tagsLeft>>

\* An optional element: waitForSelector returns it, or returns null and the
\* block that uses it is skipped.
Optional ==
  /\ AtPostStep
  /\ Step.kind = "optional"
  /\ \/ /\ MoveTo(Step.then)
        /\ UNCHANGED tagsLeft
     \/ /\ MoveTo(Step.else)
        /\ tagsLeft' = IF EndsTagIteration(pc, FALSE) THEN tagsLeft - 1 ELSE tagsLeft
  /\ UNCHANGED <<helperVars, numVars, op, browser, closeCount, listingPage, walkVars, options, uiLog>>

\* else { throw new Error(...) }: the images are required and none was given.
Throw ==
  /\ AtPostStep
  /\ Step.kind = "throw"
  /\ Caught("no images")
  /\ UNCHANGED <<helperVars, numVars, op, browser, closeCount, listingPage, walkVars, options, uiLog, tagsLeft>>

\* ---------------------------------------------- the count parser on its own

\* The symbols tokens are enumerated over.
TokenAlphabet == {"0", "1", "2", ".", ",", "-", WAN, YI, ZAN}

\* Tokens named in the documentation of the parser, and longer ones.
NamedTokens ==
  { <<"2", ".", "5", WAN>>, <<"1", ",", "2", "3", "4">>, Empty, <<ZAN>>,
    <<"1", ".", "2", "3", "4", "5", "6", WAN>>, <<"1", "2", ".", "5", YI>>,
    <<"1", "2", ",", "3", "4", "5", ",", "6", "7", "8">> }

\* Every token of at most MaxTokLen symbols, and the named ones.
Tokens == UNION {[1..n -> TokenAlphabet] : n \in 0..MaxTokLen} \cup NamedTokens

NumInit ==
  /\ op = "parseNumberWithUnit"
  /\ pc = "call"
  /\ HelpersIdle
  /\ token \in Tokens
  /\ parsed = Unparsed
  /\ limit = 0
  /\ listing = << >>
  /\ cards = << >>
  /\ i = 1
  /\ completePosts = << >>
  /\ pageDoc = BlankWeiboDoc
  /\ browser = "none"
  /\ closeCount = 0
  /\ listingPage = FALSE
  /\ detailPages = {}
  /\ result = Pending
  /\ failedStep = ""
  /\ navFailed = {}
  /\ pushLog = << >>
  /\ opened = 0
  /\ options = NoOptions
  /\ tagsLeft = 0
  /\ uiLog = << >>

\* parseNumberWithUnit(token), and the inline parsers of the listing cards, of
\* the note detail and of the comments applied to the same token.
ParseToken ==
  /\ op = "parseNumberWithUnit"
  /\ pc = "call"
  /\ parsed' = [done |-> TRUE,
                value |-> ParseNumberWithUnit(token),
                cardWeibo |-> CardCountWeibo(token),
                cardNote |-> CardCountNote(token),
                detailNote |-> DetailCountNote(token),
                commentWeibo |-> CommentLikesWeibo(token),
                commentNote |-> CommentLikesNote(token)]
  /\ pc' = "done"
  /\ UNCHANGED <<helperVars, op, token, browser, closeCount, listingPage, result, failedStep,
                 walkVars, postVars>>

NumNext == ParseToken

NumSpec == NumInit /\ [][NumNext]_vars

\* ------------------------------------------------------------ the cookies

\* Longest cookie string enumerated exhaustively.
MaxCookieLen == 4

\* The value destructured from a pair that has no '=': undefined.
Undefined == <<"UNDEFINED">>

\* The text after the first occurrence of c in s.
AfterFirst(s, c) == SubSeq(s, IndexOf(s, c) + 1, Len(s))

RECURSIVE Split(_, _)
\* s.split(c): the pieces of s between the occurrences of c.
Split(s, c) ==
  IF ~Includes(s, c) THEN <<s>>
  ELSE <<BeforeFirst(s, c)>> \o Split(AfterFirst(s, c), c)

\* acc[key] = value on an object whose properties are kept in insertion order:
\* an existing key keeps its place and takes the new value.
Assign(acc, key, value) ==
  IF \E k \in 1..Len(acc) : acc[k].name = key
  THEN [k \in 1..Len(acc) |->
          IF acc[k].name = key THEN [name |-> key, value |-> value] ELSE acc[k]]
  ELSE Append(acc, [name |-> key, value |-> value])

RECURSIVE Reduce(_, _)
\* .reduce((acc, pair) => { const [key, value] = pair.split('='); ... }, {})
Reduce(acc, pairs) ==
  IF pairs = << >> THEN acc
  ELSE LET parts == Split(Head(pairs), "=")
           key == parts[1]
           value == IF Len(parts) >= 2 THEN parts[2] ELSE Undefined
       IN Reduce(Assign(acc, key, value), Tail(pairs))

\* cookieString.split(';').map(pair => pair.trim())
TrimmedPairs(raw) ==
  LET pieces == Split(raw, ";") IN [k \in 1..Len(pieces) |-> Trim(pieces[k])]

\* parseCookieString(cookieString): the entries of the object it returns, in
\* the order Object.entries lists them.
ParseCookieString(raw) == Reduce(<< >>, TrimmedPairs(raw))

\* The domain setupCookies scopes the cookies to.
Domain(o) ==
  IF o \in {"fetchLatestWeibo"} \cup WeiboPosts THEN ".weibo.com" ELSE ".xiaohongshu.com"

\* The cookie handed to browser.setCookie for an entry.
CookieOf(entry, o) ==
  [name |-> entry.name, value |-> entry.value, domain |-> Domain(o), path |-> "/"]

\* Whether two cookies are the same cookie of the jar.
SameCookie(a, b) == a.name = b.name /\ a.domain = b.domain /\ a.path = b.path

\* The jars the browser may hold when setupCookies begins: none, or a stale
\* cookie of the platform and a cookie of another site.
EarlierJars(o) ==
  { {},
    { [name |-> <<"a">>, value |-> <<"o", "l", "d">>, domain |-> Domain(o), path |-> "/"],
      [name |-> <<"s">>, value |-> <<"1">>, domain |-> ".example.com", path |-> "/x"] } }

\* The symbols cookie strings are enumerated over.
CookieAlphabet == {"a", "b", "=", ";", " "}

\* Longer cookie strings: two pairs, a trailing separator, a repeated key, a
\* value holding '=', a pair without value.
NamedCookieStrings ==
  { <<"a", "=", "b", ";", "b", "=", "a">>,
    <<"a", "=", "b", ";", " ", "b", "=", "a", ";">>,
    <<" ", "a", "=", "b", " ", ";", " ", "b", "=", "a", " ">>,
    <<"a", "=", "b", ";", "b", "=", "a", ";", "a", "=", "a">>,
    <<"a", "=", "b", "a", "=", "=">>,
    <<"a", "=", "b", "=", "a", ";", "b">> }

CookieStrings ==
  UNION {[1..n -> CookieAlphabet] : n \in 0..MaxCookieLen} \cup NamedCookieStrings

\* One record of the call log.
Call(name, cs) == [call |-> name, cookies |-> cs]

\* The state when setupCookies(page, cookie) is called: the session is launched
\* and the operation's page is open.
CookieInit ==
  /\ op \in Walks \cup Posts
  /\ pc = "parseCookieString"
  /\ cookieString \in CookieStrings
  /\ cookies = << >>
  /\ currentCookies = {}
  /\ toSet = 1
  /\ jar \in EarlierJars(op)
  /\ jar0 = jar
  /\ cookieLog = << >>
  /\ wait = NoWait
  /\ IdleBut("")
  /\ browser = "open"
  /\ listingPage = TRUE
  /\ closeCount = 0
  /\ result = Pending
  /\ failedStep = ""
  /\ limit = 0
  /\ listing = << >>
  /\ cards = << >>
  /\ i = 1
  /\ completePosts = << >>
  /\ pageDoc = BlankDoc(op)
  /\ detailPages = {}
  /\ navFailed = {}
  /\ pushLog = << >>
  /\ opened = 0
  /\ options = NoOptions
  /\ tagsLeft = 0
  /\ uiLog = << >>
  /\ token = Empty
  /\ parsed = Unparsed

\* What a step of setupCookies leaves alone besides the cookie variables.
CookieFrame ==
  UNCHANGED <<op, browser, closeCount, listingPage, walkVars, postVars, numVars, wait,
              toolVars>>

\* const cookies = parseCookieString(cookieString)
ParseCookies ==
  /\ pc = "parseCookieString"
  /\ cookies' = ParseCookieString(cookieString)
  /\ pc' = "cookies"
  /\ UNCHANGED <<cookieString, currentCookies, toSet, jar, jar0, cookieLog, result, failedStep>>
  /\ CookieFrame

\* const currentCookies = await page.browser().cookies()
ReadCookies ==
  /\ pc = "cookies"
  /\ \/ /\ currentCookies' = jar
        /\ cookieLog' = Append(cookieLog, Call("cookies", {}))
        /\ pc' = "deleteCookie"
        /\ UNCHANGED <<result, failedStep>>
     \/ /\ Caught("setupCookies")
        /\ UNCHANGED <<currentCookies, cookieLog>>
  /\ UNCHANGED <<cookieString, cookies, toSet, jar, jar0>>
  /\ CookieFrame

\* The statement the for-of loop over Object.entries(cookies) goes to when its
\* next entry is the k-th.
CookieLoop(k) == IF k <= Len(cookies) THEN "setCookie" ELSE "goto"

\* Variant of DeleteCookie: the call leaves the jar as it is.
DeleteNoCookie ==
  /\ pc = "deleteCookie"
  /\ \/ /\ cookieLog' = Append(cookieLog, Call("deleteCookie", currentCookies))
        /\ pc' = CookieLoop(toSet)
        /\ UNCHANGED <<result, failedStep>>
     \/ /\ Caught("setupCookies")
        /\ UNCHANGED cookieLog
  /\ UNCHANGED <<cookieString, cookies, currentCookies, toSet, jar, jar0>>
  /\ CookieFrame

\* await page.browser().deleteCookie(...currentCookies)
DeleteCookie ==
  /\ pc = "deleteCookie"
  /\ \/ /\ jar' = {c \in jar : ~(\E d \in currentCookies : SameCookie(c, d))}
        /\ cookieLog' = Append(cookieLog, Call("deleteCookie", currentCookies))
        /\ pc' = CookieLoop(toSet)
        /\ UNCHANGED <<result, failedStep>>
     \/ /\ Caught("setupCookies")
        /\ UNCHANGED <<jar, cookieLog>>
  /\ UNCHANGED <<cookieString, cookies, currentCookies, toSet, jar0>>
  /\ CookieFrame

\* await page.browser().setCookie({name, value, domain, path: '/'}) for one
\* entry of the loop.
SetCookie ==
  /\ pc = "setCookie"
  /\ \/ LET new == CookieOf(cookies[toSet], op)
        IN /\ jar' = {c \in jar : ~SameCookie(c, new)} \cup {new}
           /\ cookieLog' = Append(cookieLog, Call("setCookie", {new}))
           /\ toSet' = toSet + 1
           /\ pc' = CookieLoop(toSet + 1)
           /\ UNCHANGED <<result, failedStep>>
     \/ /\ Caught("setupCookies")
        /\ UNCHANGED <<jar, cookieLog, toSet>>
  /\ UNCHANGED <<cookieString, cookies, currentCookies, jar0>>
  /\ CookieFrame

\* await page.goto(...), the first navigation of the operation.
FirstGoto ==
  /\ pc = "goto"
  /\ cookieLog' = Append(cookieLog, Call("goto", {}))
  /\ \/ /\ pc' = AfterGoto(op)
        /\ UNCHANGED <<result, failedStep>>
     \/ Caught("goto")
  /\ UNCHANGED <<cookieString, cookies, currentCookies, toSet, jar, jar0>>
  /\ CookieFrame

CookieNext == ParseCookies \/ ReadCookies \/ DeleteCookie \/ SetCookie \/ FirstGoto \/ Finally

CookieSpec == CookieInit /\ [][CookieNext]_vars

\* -------------------------------------------------------- waitForSelector

\* timeout = 5000, the default of the helper.
DefaultTimeout == 5000
\* The timeout the callers pass for the first element of a page.
LongTimeout == 10000

\* The selectors the post operations wait for.
WaitSelectors ==
  {".Form_input_2gtXx", ".VPlus_file_n7Xjc", "input[type=file]", ".Tool_btn_2Eane",
   "input[placeholder*=title]", "div[contenteditable=true]", "button:has-text(topic)",
   "input[placeholder*=topic]", ".topic-item", "button[aria-label=close]",
   "button:has-text(location)", "input[placeholder*=place]", ".location-item",
   "button.publishBtn"}

\* When the element shows up, in milliseconds after the call: at once, just
\* before the timeout, just after it, long after it.
AppearTimes(timeout) == {0, timeout - 1, timeout + 1, 2 * timeout}

\* The calls of waitForSelector(page, selector, timeout).
WaitCalls ==
  {[NoWait EXCEPT !.selector = sel, !.timeout = t, !.appearsAt = at, !.state = "called"] :
     sel \in WaitSelectors, t \in {DefaultTimeout, LongTimeout},
     at \in AppearTimes(DefaultTimeout) \cup AppearTimes(LongTimeout)}

WaitInit ==
  /\ op = "waitForSelector"
  /\ pc = "call"
  /\ wait \in WaitCalls
  /\ IdleBut("")
  /\ cookieString = Empty
  /\ cookies = << >>
  /\ currentCookies = {}
  /\ toSet = 1
  /\ jar = {}
  /\ jar0 = {}
  /\ cookieLog = << >>
  /\ token = Empty
  /\ parsed = Unparsed
  /\ limit = 0
  /\ listing = << >>
  /\ cards = << >>
  /\ i = 1
  /\ completePosts = << >>
  /\ pageDoc = BlankWeiboDoc
  /\ browser = "open"
  /\ closeCount = 0
  /\ listingPage = TRUE
  /\ detailPages = {}
  /\ result = Pending
  /\ failedStep = ""
  /\ navFailed = {}
  /\ pushLog = << >>
  /\ opened = 0
  /\ options = NoOptions
  /\ tagsLeft = 0
  /\ uiLog = << >>

\* What a step of waitForSelector leaves alone.
WaitFrame == UNCHANGED <<runVars, walkVars, postVars, numVars, cookieVars, toolVars>>

\* await page.waitForSelector(selector, { timeout }): resolves when the element
\* shows up within the timeout, rejects when the timeout elapses first, and
\* may reject for another reason (the page or its frame is gone).
WaitForElement ==
  /\ wait.state = "called"
  /\ \/ /\ wait.appearsAt <= wait.timeout
        /\ wait' = [wait EXCEPT !.state = "querying"]
     \/ /\ wait.appearsAt > wait.timeout
        /\ wait' = [wait EXCEPT !.state = "caught", !.failure = "timeout"]
     \/ wait' = [wait EXCEPT !.state = "caught", !.failure = "waitError"]
  /\ WaitFrame

\* return await page.$(selector): the element, null when it is gone again, or
\* a rejection.
QueryElement ==
  /\ wait.state = "querying"
  /\ \/ wait' = [wait EXCEPT !.state = "returned", !.outcome = "element"]
     \/ wait' = [wait EXCEPT !.state = "returned", !.outcome = "null", !.gone = TRUE]
     \/ wait' = [wait EXCEPT !.state = "caught", !.failure = "queryError"]
  /\ WaitFrame

\* Variant of CatchWait: the catch block logs and throws the error again.
CatchWaitRethrows ==
  /\ wait.state = "caught"
  /\ wait' = [wait EXCEPT !.state = "returned", !.outcome = "raised", !.logged = TRUE]
  /\ WaitFrame

\* catch (error) { console.error(...); return null; }
CatchWait ==
  /\ wait.state = "caught"
  /\ wait' = [wait EXCEPT !.state = "returned", !.outcome = "null", !.logged = TRUE]
  /\ WaitFrame

WaitNext == WaitForElement \/ QueryElement \/ CatchWait

WaitSpec == WaitInit /\ [][WaitNext]_vars

\* ------------------------------------------------------- tag normalisation

\* Longest tag text enumerated exhaustively.
MaxTagLen == 4

\* The symbols tag texts are enumerated over.
TagAlphabet == {"#", " ", "A", "x"}

\* The tag text of the documentation: blanks, '#', two letters, a blank, two
\* more symbols, blanks.
NamedTagTexts == { <<" ", " ", "#", "A", "I", " ", "x", "y", " ", " ">> }

TagTexts == UNION {[1..n -> TagAlphabet] : n \in 0..MaxTagLen} \cup NamedTagTexts

\* A program that runs none of the four operations: op names the function
\* under study.
ProgramIdle(o) ==
  /\ op = o
  /\ pc = "call"
  /\ limit = 0
  /\ listing = << >>
  /\ cards = << >>
  /\ i = 1
  /\ completePosts = << >>
  /\ pageDoc = BlankWeiboDoc
  /\ browser = "none"
  /\ closeCount = 0
  /\ listingPage = FALSE
  /\ detailPages = {}
  /\ result = Pending
  /\ failedStep = ""
  /\ navFailed = {}
  /\ pushLog = << >>
  /\ opened = 0
  /\ options = NoOptions
  /\ tagsLeft = 0
  /\ uiLog = << >>
  /\ token = Empty
  /\ parsed = Unparsed
  /\ cookieString = Empty
  /\ cookies = << >>
  /\ currentCookies = {}
  /\ toSet = 1
  /\ jar = {}
  /\ jar0 = {}
  /\ cookieLog = << >>
  /\ wait = NoWait

\* What the functions under study leave alone.
ProgramFrame == UNCHANGED <<runVars, walkVars, postVars, numVars, cookieVars, wait>>

TagInit ==
  /\ ProgramIdle("normalizeTag")
  /\ IdleBut("norm")
  /\ norm \in {[NoNorm EXCEPT !.text = t] : t \in TagTexts}

\* One element of topicElements / tagElements with the text norm.text goes
\* through the forEach of extractWeiboDetail and of extractNoteDetail.
NormalizeTag ==
  /\ ~norm.done
  /\ norm' = [norm EXCEPT !.weibo = WeiboTopics(<<TextEl(norm.text)>>),
                          !.note = NoteTags(<<TextEl(norm.text)>>),
                          !.done = TRUE]
  /\ ProgramFrame
  /\ UNCHANGED <<digest, scroll, crawler, word, desktop>>

TagNext == NormalizeTag

TagSpec == TagInit /\ [][TagNext]_vars

\* ------------------------------------------------------- summary formatter

\* Most records of a formatted result, and most comments of a record.
MaxBlocks == 2
MaxComments == 4

\* The caps of the previews: post content and note summary, note content,
\* comment content; and the number of comments previewed.
SummaryCap == 50
ContentCap == 100
CommentCap == 30
PreviewCount == 3

\* Math.min
Min(a, b) == IF a < b THEN a ELSE b

Ellipsis == <<".", ".", ".">>

\* `${s.substring(0, cap)}${s.length > cap ? '...' : ''}`
Preview(s, cap) == IF Len(s) > cap THEN SubSeq(s, 1, cap) \o Ellipsis ELSE s

\* One line of a block: its label, the number it states, and its texts.
Line(kind, n, text, who) == [kind |-> kind, n |-> n, text |-> text, who |-> who]

\* The lines that are appended only under a condition.
LineIf(cond, line) == IF cond THEN <<line>> ELSE << >>

\* Variant of CommentLines: every comment is previewed.
AllCommentLines(commentList) ==
  LineIf(Len(commentList) > 0,
         Line("commentsHeader", Min(PreviewCount, Len(commentList)), Empty, Empty))
  \o [j \in 1..Len(commentList) |->
        Line("comment", j, Preview(commentList[j].content, CommentCap), commentList[j].author)]

\* The header and the previews of the comments: Math.min(3, length) in the
\* header, commentList.slice(0, 3) below it.
CommentLines(commentList) ==
  LET shown == Slice(commentList, PreviewCount)
  IN LineIf(Len(commentList) > 0,
            Line("commentsHeader", Min(PreviewCount, Len(commentList)), Empty, Empty))
     \o IF Len(commentList) > 0
        THEN [j \in 1..Len(shown) |->
                Line("comment", j, Preview(shown[j].content, CommentCap), shown[j].author)]
        ELSE << >>

\* The item getLatestWeibo builds for the post at index n - 1. An author object
\* is always present in a record of the walk.
WeiboBlock(post, n) ==
  <<Line("title", n, Preview(post.content, SummaryCap), Empty)>>
  \o LineIf(Len(post.topics) > 0, Line("tags", Len(post.topics), Empty, Empty))
  \o <<Line("author", 0, post.author.name, Empty),
       Line("time", 0, post.publishTime, Empty),
       Line("images", Len(post.images), Empty, Empty),
       Line("counts", 0, Empty, Empty)>>
  \o CommentLines(post.commentList)
  \o <<Line("url", 0, post.url, Empty)>>

\* The item getLatestNotes builds for the note at index n - 1.
NoteBlock(note, n) ==
  <<Line("title", n, IF note.title # Empty THEN note.title ELSE <<"NOTITLE">>, Empty),
    Line("summary", 0, Preview(note.summary, SummaryCap), Empty)>>
  \o LineIf(note.fullContent # Empty,
            Line("content", 0, Preview(note.fullContent, ContentCap), Empty))
  \o LineIf(Len(note.tags) > 0, Line("tags", Len(note.tags), Empty, Empty))
  \o <<Line("author", 0, note.author.name, Empty),
       Line("images", Len(note.images), Empty, Empty),
       Line("counts", 0, Empty, Empty)>>
  \o CommentLines(note.commentList)
  \o <<Line("url", 0, note.url, Empty)>>

\* result.posts.forEach((post, index) => ... res.push(item)), per platform.
Blocks(o, records) ==
  [k \in 1..Len(records) |->
     IF o = "fetchLatestWeibo" THEN WeiboBlock(records[k], k) ELSE NoteBlock(records[k], k)]

\* A text of n symbols.
LongText(n) == [k \in 1..n |-> "z"]

DigitOf(j) == <<"1", "2", "3", "4", "5", "6", "7", "8", "9">>[j]

\* The j-th comment of a sample record; the second one is longer than the cap.
SampleComment(j) ==
  [content |-> IF j = 2 THEN LongText(CommentCap + 1) ELSE <<"c", DigitOf(j)>>,
   author |-> <<"u", DigitOf(j)>>, time |-> Empty, likes |-> Num(j)]

\* The records a walk may return: a card's summary, or that summary enriched
\* with two tags and a long text, each with up to MaxComments comments.
SampleRecords(o) ==
  LET plain == {Summary(o, c) : c \in CardPool(o)}
      rich(r) == IF o = "fetchLatestWeibo"
                 THEN [r EXCEPT !.topics = <<(<<"A">>), (<<"B">>)>>,
                                !.content = LongText(SummaryCap + 1)]
                 ELSE [r EXCEPT !.tags = <<(<<"A">>), (<<"B">>)>>,
                                !.fullContent = LongText(ContentCap + 1)]
  IN {[r EXCEPT !.commentList = [j \in 1..k |-> SampleComment(j)]] :
        r \in plain \cup {rich(p) : p \in plain}, k \in 0..MaxComments}

DigestInit ==
  /\ ProgramIdle("getLatest")
  /\ IdleBut("digest")
  /\ \E o \in Walks :
       digest \in
         {[NoDigest EXCEPT !.platform = o, !.success = TRUE, !.records = rs] :
            rs \in UNION {[1..n -> SampleRecords(o)] : n \in 0..MaxBlocks}}
         \cup {[NoDigest EXCEPT !.platform = o]}

\* if (result.success && result.posts) { ...; return res.join('\n') }
FormatResult ==
  /\ digest.returned = "pending"
  /\ digest.success
  /\ digest' = [digest EXCEPT !.out = Blocks(digest.platform, digest.records),
                              !.returned = "string"]
  /\ ProgramFrame
  /\ UNCHANGED <<norm, scroll, crawler, word, desktop>>

\* else { console.error(...) }: the function returns undefined.
FormatFailure ==
  /\ digest.returned = "pending"
  /\ ~digest.success
  /\ digest' = [digest EXCEPT !.returned = "undefined"]
  /\ ProgramFrame
  /\ UNCHANGED <<norm, scroll, crawler, word, desktop>>

DigestNext == FormatResult \/ FormatFailure

DigestSpec == DigestInit /\ [][DigestNext]_vars

\* -------------------------------------------------------------- autoScroll

\* The tallest document of the model, in pixels.
MaxScrollHeight == 400

\* const distance = 100
Distance == 100

\* The heights a document starts with and the amounts lazy loading adds.
HeightStep == 50
StartHeights == {h \in 0..MaxScrollHeight : h % HeightStep = 0}
Growths == {HeightStep, Distance, Distance + HeightStep}

\* Variant of ScrollDone: the scroll goes on when the distance equals the
\* height.
ScrollDoneStrict(totalHeight, scrollHeight) == totalHeight > scrollHeight

\* if (totalHeight >= scrollHeight)
ScrollDone(totalHeight, scrollHeight) == totalHeight >= scrollHeight

ScrollInit ==
  /\ ProgramIdle("autoScroll")
  /\ IdleBut("scroll")
  /\ scroll \in {[NoScroll EXCEPT !.pos = "scrolling", !.scrollHeight = h, !.loading = l] :
                   h \in StartHeights, l \in BOOLEAN}

ScrollFrame ==
  /\ ProgramFrame
  /\ UNCHANGED <<norm, digest, crawler, word, desktop>>

\* The interval callback: read document.body.scrollHeight, scroll by distance,
\* add distance to totalHeight, and clear the interval and resolve when the
\* total has reached the height read.
Tick ==
  /\ scroll.pos = "scrolling"
  /\ LET total == scroll.totalHeight + Distance
     IN scroll' = [scroll EXCEPT
                     !.read = scroll.scrollHeight,
                     !.totalHeight = total,
                     !.ticks = scroll.ticks + 1,
                     !.pos = IF ScrollDone(total, scroll.scrollHeight)
                             THEN "settling" ELSE "scrolling"]
  /\ ScrollFrame

\* Lazy loading appends content between two ticks.
Grow ==
  /\ scroll.pos = "scrolling"
  /\ scroll.loading
  /\ \E g \in Growths :
       /\ scroll.scrollHeight + g <= MaxScrollHeight
       /\ scroll' = [scroll EXCEPT !.scrollHeight = scroll.scrollHeight + g]
  /\ ScrollFrame

\* The page has nothing more to load.
EndOfContent ==
  /\ scroll.pos = "scrolling"
  /\ scroll.loading
  /\ scroll' = [scroll EXCEPT !.loading = FALSE]
  /\ ScrollFrame

\* await delay(2000), then autoScroll returns.
Settle ==
  /\ scroll.pos = "settling"
  /\ scroll' = [scroll EXCEPT !.pos = "returned"]
  /\ ScrollFrame

ScrollNext == Tick \/ Grow \/ EndOfContent \/ Settle

ScrollSpec == ScrollInit /\ [][ScrollNext]_vars

\* setInterval keeps firing the callback until the interval is cleared, and the
\* settle delay elapses.
FairScrollSpec == ScrollSpec /\ WF_vars(Tick) /\ WF_vars(Settle)

\* -------------------------------------------------------------------- crawl

\* The pages crawl is called for.
CrawlUrls == {"https://a", "https://b", "https://c", "http://d"}

CrawlInit ==
  /\ ProgramIdle("crawl")
  /\ IdleBut("crawler")
  /\ crawler \in {[NoCrawl EXCEPT !.pos = "launch", !.url = u] : u \in CrawlUrls}

CrawlFrame ==
  /\ ProgramFrame
  /\ UNCHANGED <<norm, digest, scroll, word, desktop>>

\* An exception raised in the outer try but outside the inner one: control goes
\* to the catch block.
CrawlRaise(step) == crawler' = [crawler EXCEPT !.pos = "catch", !.error = step]

\* An exception raised in the inner try: the finally block runs with the
\* exception pending.
CrawlRaiseInner(step) ==
  crawler' = [crawler EXCEPT !.pos = "pageClose", !.pending = "throw", !.error = step]

\* const browser = await puppeteer.launch(...)
CrawlLaunch ==
  /\ crawler.pos = "launch"
  /\ \/ crawler' = [crawler EXCEPT !.pos = "newPage", !.browser = "open"]
     \/ CrawlRaise("launch")
  /\ CrawlFrame

\* const page = await browser.newPage(), before the inner try
CrawlNewPage ==
  /\ crawler.pos = "newPage"
  /\ \/ crawler' = [crawler EXCEPT !.pos = "goto", !.page = "open"]
     \/ CrawlRaise("newPage")
  /\ CrawlFrame

\* await page.goto(url, ...)
CrawlGoto ==
  /\ crawler.pos = "goto"
  /\ \/ crawler' = [crawler EXCEPT !.pos = "content"]
     \/ CrawlRaiseInner("goto")
  /\ CrawlFrame

\* const html = await page.content()
CrawlContent ==
  /\ crawler.pos = "content"
  /\ \/ crawler' = [crawler EXCEPT !.pos = "evaluate"]
     \/ CrawlRaiseInner("content")
  /\ CrawlFrame

\* const content = await page.evaluate(...), then return { url, content }: the
\* finally block runs with the return pending.
CrawlEvaluate ==
  /\ crawler.pos = "evaluate"
  /\ \/ crawler' = [crawler EXCEPT !.pos = "pageClose", !.pending = "return"]
     \/ CrawlRaiseInner("evaluate")
  /\ CrawlFrame

\* finally { await page.close(); ...: an exception raised here replaces the
\* pending completion and skips the rest of the block.
CrawlPageClose ==
  /\ crawler.pos = "pageClose"
  /\ \/ crawler' = [crawler EXCEPT !.pos = "browserClose", !.page = "closed"]
     \/ crawler' = [crawler EXCEPT !.pos = "catch", !.pending = "none",
                                   !.error = "page.close"]
  /\ CrawlFrame

\* ... await browser.close() }, then the pending completion takes place.
CrawlBrowserClose ==
  /\ crawler.pos = "browserClose"
  /\ \/ crawler' = [crawler EXCEPT
                      !.browser = "closed", !.page = "closed", !.pending = "none",
                      !.pos = IF crawler.pending = "return" THEN "done" ELSE "catch",
                      !.outcome = IF crawler.pending = "return" THEN "returned"
                                  ELSE "pending"]
     \/ crawler' = [crawler EXCEPT !.pos = "catch", !.pending = "none",
                                   !.error = "browser.close"]
  /\ CrawlFrame

\* catch (error) { console.error(...); throw error }
CrawlCatch ==
  /\ crawler.pos = "catch"
  /\ crawler' = [crawler EXCEPT !.pos = "done", !.outcome = "raised"]
  /\ CrawlFrame

CrawlNext ==
  \/ CrawlLaunch
  \/ CrawlNewPage
  \/ CrawlGoto
  \/ CrawlContent
  \/ CrawlEvaluate
  \/ CrawlPageClose
  \/ CrawlBrowserClose
  \/ CrawlCatch

CrawlSpec == CrawlInit /\ [][CrawlNext]_vars

\* --------------------------------------------------------- readWordContent

\* The calls in flight and the last reading of the millisecond clock.
WordCalls == 1..2
MaxClock == 2

\* A call before its first statement. txt and html are the stamps of its temp
\* file names (0 while the variable is null), read the document whose text it
\* read (0 for none), converters the pandoc processes it started, took whether
\* its cleanup removed a file another call in flight holds.
NewCall(exists, preserveMath, saveToFile) ==
  [pos |-> "access", exists |-> exists, preserveMath |-> preserveMath,
   saveToFile |-> saveToFile, txt |-> 0, html |-> 0, read |-> 0, converters |-> 0,
   pending |-> "none", outcome |-> "pending", took |-> FALSE]

WordInit ==
  /\ ProgramIdle("readWordContent")
  /\ IdleBut("word")
  /\ \E c1 \in {NewCall(e, m, FALSE) : e, m \in BOOLEAN} :
     \E c2 \in {NewCall(TRUE, m, v) : m, v \in BOOLEAN} :
       word = [now |-> 1, files |-> {}, calls |-> <<c1, c2>>]

WordFrame ==
  /\ ProgramFrame
  /\ UNCHANGED <<norm, digest, scroll, crawler, desktop>>

\* The file of the temp directory with a name, if any (a set of at most one).
FileAt(ext, stamp) == {f \in word.files : f.ext = ext /\ f.stamp = stamp}

\* pandoc ... -o name: the file is created or overwritten with the text of doc.
WriteFile(ext, stamp, doc) ==
  (word.files \ FileAt(ext, stamp)) \cup {[ext |-> ext, stamp |-> stamp, doc |-> doc]}

\* The millisecond clock advances.
ClockTick ==
  /\ word.now < MaxClock
  /\ word' = [word EXCEPT !.now = word.now + 1]
  /\ WordFrame

\* An exception in the try block of call p: the finally block runs with the
\* exception pending.
WordThrow(p) == [word.calls[p] EXCEPT !.pos = "unlinkTxt", !.pending = "throw"]

\* await fs.access(wordPath); on success the temp names are made from
\* Date.now() and the first converter is started.
Access(p) ==
  LET c == word.calls[p]
  IN /\ c.pos = "access"
     /\ \/ /\ c.exists
           /\ word' = [word EXCEPT
                         !.calls[p] = [c EXCEPT
                            !.txt = word.now, !.html = word.now,
                            !.converters = 1,
                            !.pos = IF c.preserveMath THEN "pandocHtml" ELSE "pandocText"]]
        \/ /\ ~c.exists
           /\ word' = [word EXCEPT !.calls[p] = WordThrow(p)]
     /\ WordFrame

\* pandoc docx -> html into tempHtmlFile; then the second converter is started.
\* A failing converter may or may not have written its output.
PandocHtml(p) ==
  LET c == word.calls[p]
  IN /\ c.pos = "pandocHtml"
     /\ \/ word' = [word EXCEPT
                      !.files = WriteFile("html", c.html, p),
                      !.calls[p] = [c EXCEPT !.pos = "pandocText",
                                             !.converters = c.converters + 1]]
        \/ \E wrote \in BOOLEAN :
             word' = [word EXCEPT
                        !.files = IF wrote THEN WriteFile("html", c.html, p) ELSE word.files,
                        !.calls[p] = WordThrow(p)]
     /\ WordFrame

\* pandoc -> plain text into tempTextFile, from the document or, with
\* preserveMath, from whatever tempHtmlFile holds.
PandocText(p) ==
  LET c == word.calls[p]
      source == IF c.preserveMath THEN {f.doc : f \in FileAt("html", c.html)} ELSE {p}
  IN /\ c.pos = "pandocText"
     /\ \/ \E doc \in source :
             word' = [word EXCEPT
                        !.files = WriteFile("txt", c.txt, doc),
                        !.calls[p] = [c EXCEPT !.pos = "readFile"]]
        \/ word' = [word EXCEPT !.calls[p] = WordThrow(p)]
     /\ WordFrame

\* const textContent = await fs.readFile(tempTextFile); without saveToFile the
\* function returns it.
ReadFile(p) ==
  LET c == word.calls[p]
  IN /\ c.pos = "readFile"
     /\ \/ \E f \in FileAt("txt", c.txt) :
             word' = [word EXCEPT
                        !.calls[p] = [c EXCEPT
                           !.read = f.doc,
                           !.pos = IF c.saveToFile THEN "writeFile" ELSE "unlinkTxt",
                           !.pending = IF c.saveToFile THEN "none" ELSE "return"]]
        \/ /\ FileAt("txt", c.txt) = {}
           /\ word' = [word EXCEPT !.calls[p] = WordThrow(p)]
     /\ WordFrame

\* await fs.writeFile(outputFilePath, textContent); return textContent
SaveToFile(p) ==
  LET c == word.calls[p]
  IN /\ c.pos = "writeFile"
     /\ \/ word' = [word EXCEPT !.calls[p] = [c EXCEPT !.pos = "unlinkTxt",
                                                       !.pending = "return"]]
        \/ word' = [word EXCEPT !.calls[p] = WordThrow(p)]
     /\ WordFrame

\* Whether another call that has not ended holds the temp name.
HeldByOther(p, ext, stamp) ==
  \E q \in WordCalls \ {p} :
    /\ word.calls[q].pos # "done"
    /\ (IF ext = "txt" THEN word.calls[q].txt ELSE word.calls[q].html) = stamp

\* One round of the cleanup loop: if (file) { try { await fs.unlink(file) }
\* catch { console.error(...) } }. Unlinking a missing file fails and is logged.
Unlink(p, ext) ==
  LET c == word.calls[p]
      stamp == IF ext = "txt" THEN c.txt ELSE c.html
      last == ext = "html"
      removes == stamp # 0 /\ FileAt(ext, stamp) # {}
  IN /\ c.pos = (IF ext = "txt" THEN "unlinkTxt" ELSE "unlinkHtml")
     /\ word' = [word EXCEPT
                   !.files = IF stamp # 0 THEN word.files \ FileAt(ext, stamp)
                             ELSE word.files,
                   !.calls[p] = [c EXCEPT
                      !.took = c.took \/ (removes /\ HeldByOther(p, ext, stamp)),
                      !.pos = IF last THEN "done" ELSE "unlinkHtml",
                      !.outcome = IF ~last THEN c.outcome
                                  ELSE IF c.pending = "return" THEN "returned"
                                  ELSE "raised"]]
     /\ WordFrame

WordNext ==
  \/ ClockTick
  \/ \E p \in WordCalls :
       \/ Access(p)
       \/ PandocHtml(p)
       \/ PandocText(p)
       \/ ReadFile(p)
       \/ SaveToFile(p)
       \/ Unlink(p, "txt")
       \/ Unlink(p, "html")

WordSpec == WordInit /\ [][WordNext]_vars

\* --------------------------------------------------------- getDesktopFiles

\* Most entries of one directory.
MaxEntries == 2

\* The names of the files and of the directories of the sample trees.
FileNamePool ==
  << <<"a", ".", "p", "d", "f">>, <<"b", ".", "t", "x", "t">>,
     <<".", "h", ".", "p", "d", "f">>, <<"c", ".", "P", "D", "F">> >>
DirNamePool ==
  << <<"d", "o", "c", "s">>, <<"x", ".", "p", "d", "f">>, <<".", "g", "i", "t">> >>

\* An entry of a directory, with the entries below it.
Entry(name, type, children) == [name |-> name, type |-> type, children |-> children]

\* The elements of pool at the positions in S, in pool order.
Pick(pool, S) ==
  LET idx == SelectSeq([k \in 1..Len(pool) |-> k], LAMBDA k : k \in S)
  IN [j \in 1..Len(idx) |-> pool[idx[j]]]

\* The file entries of one directory: some of the file names.
FileListings(most) ==
  {Pick([k \in 1..Len(FileNamePool) |-> Entry(FileNamePool[k], "file", << >>)], S) :
     S \in {T \in SUBSET (1..Len(FileNamePool)) : Cardinality(T) <= most}}

\* The sub-directories of the Desktop: some of the directory names, each over
\* a listing of files.
DirListings(most) ==
  UNION {
    {[j \in 1..Len(Pick(DirNamePool, S)) |->
        Entry(Pick(DirNamePool, S)[j], "directory", below[j])] :
       below \in [1..Cardinality(S) -> FileListings(MaxEntries)]} :
    S \in {T \in SUBSET (1..Len(DirNamePool)) : Cardinality(T) <= most} }

\* The Desktop directories of the model.
Trees ==
  UNION {{fs \o ds : fs \in FileListings(MaxEntries - Len(ds))} : ds \in DirListings(MaxEntries)}

\* String.prototype.toLowerCase on the letters of the sample names.
ToLowerCase(name) ==
  [k \in 1..Len(name) |->
     CASE name[k] = "P" -> "p" [] name[k] = "D" -> "d" [] name[k] = "F" -> "f"
       [] OTHER -> name[k]]

\* String.prototype.endsWith.
EndsWith(s, p) == Len(s) >= Len(p) /\ SubSeq(s, Len(s) - Len(p) + 1, Len(s)) = p

\* The filters a caller passes: the default () => true and the PDF filter
\* fileName.toLowerCase().endsWith('.pdf').
Filters == {"all", "pdf"}
Passes(filter, name) ==
  IF filter = "pdf" THEN EndsWith(ToLowerCase(name), <<".", "p", "d", "f">>) ELSE TRUE

\* file.startsWith(".")
IsHidden(name) == StartsWith(name, <<".">>)

\* The two continue statements of the loop: a hidden name, or a name the
\* filter rejects.
Skipped(entry, includeHidden, filter) ==
  \/ ~includeHidden /\ IsHidden(entry.name)
  \/ ~Passes(filter, entry.name)

\* readDirectoryContents(dirPath, includeHidden, recursive, filter) over the
\* entries readdirSync lists for dirPath. listed tells whether the children
\* property was assigned.
RECURSIVE ReadDirectoryContents(_, _, _, _, _)
ReadDirectoryContents(dirPath, files, includeHidden, recursive, filter) ==
  LET kept == SelectSeq(files, LAMBDA e : ~Skipped(e, includeHidden, filter))
  IN [k \in 1..Len(kept) |->
        LET filePath == dirPath \o <<"/">> \o kept[k].name
            descend == kept[k].type = "directory" /\ recursive
        IN [name |-> kept[k].name,
            path |-> filePath,
            type |-> kept[k].type,
            listed |-> descend,
            children |->
              IF descend
              THEN ReadDirectoryContents(filePath, kept[k].children, includeHidden,
                                         recursive, filter)
              ELSE << >>]]

DesktopPath == <<"~", "/", "Desktop">>

DesktopInit ==
  /\ ProgramIdle("getDesktopFiles")
  /\ IdleBut("desktop")
  /\ desktop \in {[NoDesktop EXCEPT !.tree = t, !.includeHidden = h, !.recursive = r,
                                    !.filter = f] :
                    t \in Trees, h \in BOOLEAN, r \in BOOLEAN, f \in Filters}

\* getDesktopFiles(options): return readDirectoryContents(desktopPath, ...)
GetDesktopFiles ==
  /\ ~desktop.done
  /\ desktop' = [desktop EXCEPT
                   !.result = ReadDirectoryContents(DesktopPath, desktop.tree,
                                                    desktop.includeHidden,
                                                    desktop.recursive, desktop.filter),
                   !.done = TRUE]
  /\ ProgramFrame
  /\ UNCHANGED <<norm, digest, scroll, crawler, word>>

DesktopNext == GetDesktopFiles

DesktopSpec == DesktopInit /\ [][DesktopNext]_vars

\* ------------------------------------------------------------ specification

Next ==
  \/ Launch \/ NewPage \/ SetupCookies \/ Goto \/ AutoScroll \/ Enumerate
  \/ LoopHead \/ DetailNewPage \/ SetViewport \/ DetailGoto \/ Extract \/ DetailClose
  \/ Await \/ Mandatory \/ Optional \/ Throw
  \/ Finally

Spec == Init /\ [][Next]_vars

\* ------------------------------------------------------------------ claims

\* A walk has handed a result to its caller.
WalkReturned == IsWalk /\ pc = "done" /\ result.state = "returned"

\* What the detail extractor returns for a document, per platform.
DetailOf(o, doc) ==
  IF o = "fetchLatestWeibo" THEN ExtractWeiboDetail(doc) ELSE ExtractNoteDetail(doc)

\* The step being taken pushes the merged record of item i.
MergeStep ==
  /\ pc = "extract"
  /\ Len(pushLog') = Len(pushLog) + 1
  /\ pushLog'[Len(pushLog')].how = "merged"

\* The pages that are open: the operation's page and the detail pages.
OpenPages == (IF listingPage THEN 1 ELSE 0) + Cardinality(detailPages)

\* C1: a successful walk returns exactly min(limit, N) records, one per
\* enumerated card and in document order, whatever enrichment step failed.
C1_OneRecordPerCardInOrder ==
  (WalkReturned /\ result.success) =>
    /\ Len(result.posts) = Min(limit, Len(listing))
    /\ \A k \in 1..Len(result.posts) :
         /\ pushLog[k].item = k
         /\ k <= Len(listing)
         /\ result.posts[k].url = Summary(op, listing[k]).url
         /\ result.posts[k].coverImage = Summary(op, listing[k]).coverImage

\* C2: when the navigation to an item's detail url failed, the walk still
\* returns a record for every card and the record of that item equals its
\* summary record in every field.
C2_NavFailureKeepsSummary ==
  (WalkReturned /\ result.success) =>
    /\ \A k \in 1..Len(cards) : \E j \in 1..Len(result.posts) : pushLog[j].item = k
    /\ \A j \in 1..Len(result.posts) :
         pushLog[j].item \in navFailed => result.posts[j] = cards[pushLog[j].item]

\* C3: the merge keeps the card's author when the detail author has an empty
\* id, and takes the detail author whole when its id is not empty.
C3_MergeAuthorPolicy ==
  [][MergeStep =>
       LET d == DetailOf(op, pageDoc).author
           c == cards[i].author
           m == completePosts'[Len(completePosts')].author
       IN /\ d.id = Empty => m = c
          /\ d.id # Empty => m = d]_vars

\* C3 witness: one run merged a detail author with an id over the card's, and
\* kept a card's author against a detail author that has a name but no id.
C3_Witness ==
  \E j1, j2 \in 1..Len(completePosts) :
    /\ pushLog[j1].how = "merged"
    /\ pushLog[j2].how = "merged"
    /\ completePosts[j1].author # cards[pushLog[j1].item].author
    /\ completePosts[j1].author.id # Empty
    /\ completePosts[j2].author = cards[pushLog[j2].item].author
    /\ completePosts[j2].author.id # Empty
    /\ \E doc \in DocPool(op) :
         /\ DetailOf(op, doc).author.id = Empty
         /\ DetailOf(op, doc).author.name # Empty
         /\ DetailOf(op, doc).htmlContent # Empty
         /\ completePosts[j2].htmlContent = DetailOf(op, doc).htmlContent

\* The merged value of one count, as the claim states it: the detail value
\* when it is a nonzero number, the card's value when the detail value is zero
\* or not a number; and a nonzero card value never becomes zero.
CountMergedAsClaimed(c, d, m) ==
  /\ (~d.nan /\ d # Num(0)) => m = d
  /\ (d.nan \/ d = Num(0)) => m = c
  /\ (~c.nan /\ c # Num(0)) => m # Num(0)

\* C4: in the merge, every interaction count is the detail value when that is
\* nonzero and the card's value otherwise; a nonzero card count is never
\* replaced by zero.
C4_MergeCountPolicy ==
  [][MergeStep =>
       LET d == DetailOf(op, pageDoc).interactions
           c == cards[i]
           m == completePosts'[Len(completePosts')]
       IN /\ CountMergedAsClaimed(c.likes, d.likes, m.likes)
          /\ CountMergedAsClaimed(c.comments, d.comments, m.comments)
          /\ IF op = "fetchLatestWeibo"
             THEN CountMergedAsClaimed(c.reposts, d.reposts, m.reposts)
             ELSE CountMergedAsClaimed(c.collects, d.collects, m.collects)]_vars

\* C4 witness: a merged Weibo record whose likes were replaced by a nonzero
\* detail value and whose nonzero reposts were kept against a detail value of
\* zero.
C4_Witness ==
  /\ op = "fetchLatestWeibo"
  /\ \E j \in 1..Len(completePosts) :
       LET c == cards[pushLog[j].item]
       IN /\ pushLog[j].how = "merged"
          /\ completePosts[j].likes = Num(25000)
          /\ c.likes # Num(25000)
          /\ completePosts[j].reposts = Num(1234)
          /\ c.reposts = Num(1234)
          /\ completePosts[j].htmlContent = ExtractWeiboDetail(WeiboDocCurrent).htmlContent

\* C5: when the initial navigation fails, the walk returns {success: false,
\* error} without raising, with no records, and never opened a detail page.
C5_InitialNavigationFailure ==
  (IsWalk /\ pc = "done" /\ failedStep = "goto") =>
    /\ result.state = "returned"
    /\ ~result.success
    /\ result.error = "goto"
    /\ result.posts = << >>
    /\ completePosts = << >>
    /\ opened = 0
    /\ detailPages = {}

C5_Witness == IsWalk /\ pc = "done" /\ failedStep = "goto" /\ Len(listing) > 0 /\ limit > 0

\* C6: when launching the session fails, the walk hands {success: false,
\* error} to its caller instead of raising.
C6_LaunchFailureIsAResult ==
  (IsWalk /\ pc = "done" /\ failedStep = "launch") =>
    (result.state = "returned" /\ ~result.success)

StepsBeforeLoop == {"launch", "newPage", "setupCookies", "goto", "autoScroll", "evaluate"}

C8_SessionClosedExactlyOnce ==
  /\ closeCount <= 1
  /\ browser = "none" => closeCount = 0
  /\ browser = "open" => (closeCount = 0 /\ pc # "done" /\ result.state = "pending")
  /\ (pc = "done" /\ op \in Walks \cup Posts /\ failedStep # "launch") =>
       (browser = "closed" /\ closeCount = 1)

\* C8 witness: postXiaohongshu ended because the mandatory publish button was
\* absent, with its session closed.
C8_Witness ==
  /\ op = "postXiaohongshu"
  /\ pc = "done"
  /\ failedStep = "submitBtn"
  /\ result.state = "returned"
  /\ closeCount = 1

\* C9: during a walk at most two pages are open, and the detail page of one
\* item is closed before the detail page of the next item is opened.
C9_AtMostTwoPages ==
  IsWalk =>
    /\ OpenPages <= 2
    /\ pc = "detailNewPage" => detailPages = {}

\* Whether a text is a decimal numeral: digits, or digits, a point and digits.
IsDecimal(d) ==
  /\ Len(d) >= 1
  /\ \A k \in 1..Len(d) : d[k] \in Digits \cup {"."}
  /\ Cardinality({k \in 1..Len(d) : d[k] = "."}) <= 1
  /\ d[1] # "." /\ d[Len(d)] # "."

\* The number a decimal numeral denotes.
DecimalValue(d) ==
  LET p == IndexOf(d, ".")
  IN IF p = 0 THEN Norm(DigitsValue(d), 0)
     ELSE Norm(DigitsValue(SubSeq(d, 1, p - 1) \o SubSeq(d, p + 1, Len(d))), -(Len(d) - p))

\* Whether a text is digits with thousands separators.
IsGrouped(t) ==
  /\ Len(t) >= 1
  /\ \A k \in 1..Len(t) : t[k] \in Digits \cup {","}
  /\ t[1] # "," /\ t[Len(t)] # ","

\* Whether a text holds no digit at all.
NoDigit(t) == \A k \in 1..Len(t) : t[k] \notin Digits

\* C10: the count parser maps the empty token to 0, d followed by the
\* ten-thousand marker to d x 10000, d followed by the hundred-million marker
\* to d x 100000000, digits with separators to the integer without them, and
\* the like label and any other unparsable token (one without any digit) to 0.
C10_CountParserMapping ==
  parsed.done =>
    LET n == Len(token)
        d == SubSeq(token, 1, n - 1)
    IN /\ token = Empty => parsed.value = Num(0)
       /\ (n >= 2 /\ token[n] = WAN /\ IsDecimal(d)) =>
            parsed.value = TimesPow10(DecimalValue(d), 4)
       /\ (n >= 2 /\ token[n] = YI /\ IsDecimal(d)) =>
            parsed.value = TimesPow10(DecimalValue(d), 8)
       /\ IsGrouped(token) => parsed.value = Num(DigitsValue(ReplaceAll(token, ",")))
       /\ token = <<"2", ".", "5", WAN>> => parsed.value = Num(25000)
       /\ token = <<"1", ",", "2", "3", "4">> => parsed.value = Num(1234)
       /\ token = <<ZAN>> => parsed.value = Num(0)
       /\ NoDigit(token) => parsed.value = Num(0)

\* Whether a number is a non-negative whole number.
IsCount(x) == ~x.nan /\ IsInteger(x) /\ ~IsNegative(x)

\* C11: for every text token the count parser returns an integer, and every
\* interaction count read from a token (by the detail extractors, the listing
\* cards and the comments) is a non-negative whole number: never fractional,
\* never not-a-number, never negative.
C11_CountIsNonNegativeInteger ==
  parsed.done =>
    /\ IsCount(parsed.value)
    /\ IsCount(parsed.cardWeibo)
    /\ IsCount(parsed.cardNote)
    /\ IsCount(parsed.detailNote)
    /\ IsCount(parsed.commentWeibo)
    /\ IsCount(parsed.commentNote)

\* C12: on every token the counts of the listing cards and of the detail
\* extractors equal the value of the count parser; in particular "2.5" followed
\* by the ten-thousand marker yields 25000 on either platform.
C12_ParsersAgree ==
  parsed.done =>
    /\ parsed.cardWeibo = parsed.value
    /\ parsed.cardNote = parsed.value
    /\ parsed.detailNote = parsed.value
    /\ token = <<"2", ".", "5", WAN>> =>
         (parsed.value = Num(25000) /\ parsed.detailNote = Num(25000))

\* parseCookieString has returned.
CookiesParsed == pc # "parseCookieString"

\* The key of a pair: its text before the first '='.
KeyOf(pair) == BeforeFirst(pair, "=")

\* Whether the k-th pair is the last one of its key.
LastOfKey(pairs, k) == \A j \in (k+1)..Len(pairs) : KeyOf(pairs[j]) # KeyOf(pairs[k])

\* Whether a mapping stores the value under the key.
Stores(map, key, value) ==
  \E k \in 1..Len(map) : map[k].name = key /\ map[k].value = value

\* The cookies handed to setCookie so far.
CookiesSet ==
  UNION {cookieLog[k].cookies : k \in {j \in 1..Len(cookieLog) : cookieLog[j].call = "setCookie"}}

\* C13: parseCookieString splits a pair on the first '=' only: the mapping
\* stores under the key the whole text after the first '=', also when that
\* text holds '=' itself.
C13_ValueAfterFirstEquals ==
  CookiesParsed =>
    LET pairs == TrimmedPairs(cookieString)
    IN \A k \in 1..Len(pairs) :
         (Includes(pairs[k], "=") /\ LastOfKey(pairs, k)) =>
           Stores(cookies, KeyOf(pairs[k]), AfterFirst(pairs[k], "="))

\* C14: a pair without '=' is stored with the empty string as its value, never
\* an undefined value, and the cookie set for it has the value "".
C14_MissingValueIsEmpty ==
  CookiesParsed =>
    LET pairs == TrimmedPairs(cookieString)
    IN /\ \A k \in 1..Len(pairs) :
            (~Includes(pairs[k], "=") /\ LastOfKey(pairs, k)) =>
              Stores(cookies, pairs[k], Empty)
       /\ \A k \in 1..Len(cookies) : cookies[k].value # Undefined
       /\ \A c \in CookiesSet : c.value # Undefined

\* A well-formed pair: a key, one '=', a value, no blank inside.
WellFormedPair(pair) ==
  /\ Cardinality({k \in 1..Len(pair) : pair[k] = "="}) = 1
  /\ KeyOf(pair) # Empty
  /\ AfterFirst(pair, "=") # Empty
  /\ ~Includes(pair, " ")

\* The pairs of a cookie string, a trailing ';' set aside.
PairsBeforeTrailing(raw) ==
  LET pairs == TrimmedPairs(raw)
  IN IF Len(pairs) >= 2 /\ pairs[Len(pairs)] = Empty
     THEN SubSeq(pairs, 1, Len(pairs) - 1) ELSE pairs

\* A cookie string made of well-formed pairs separated by ';', with or without
\* surrounding blanks or a trailing ';'.
WellFormedCookieString(raw) ==
  \A k \in 1..Len(PairsBeforeTrailing(raw)) : WellFormedPair(PairsBeforeTrailing(raw)[k])

\* C15: for a cookie string of well-formed pairs the mapping has exactly one
\* entry per distinct key and no other entry, and a repeated key stores the
\* value of its last occurrence.
C15_OneEntryPerKey ==
  (CookiesParsed /\ WellFormedCookieString(cookieString)) =>
    LET pairs == PairsBeforeTrailing(cookieString)
        keys == {KeyOf(pairs[k]) : k \in 1..Len(pairs)}
    IN /\ {cookies[k].name : k \in 1..Len(cookies)} = keys
       /\ Len(cookies) = Cardinality(keys)
       /\ \A k \in 1..Len(pairs) :
            LastOfKey(pairs, k) => Stores(cookies, KeyOf(pairs[k]), AfterFirst(pairs[k], "="))

\* C16: with an empty cookie string the parsed mapping is empty and setCookie
\* is never called.
C16_EmptyStringSetsNothing ==
  (CookiesParsed /\ cookieString = Empty) =>
    /\ cookies = << >>
    /\ CookiesSet = {}
    /\ \A k \in 1..Len(cookieLog) : cookieLog[k].call # "setCookie"

\* setupCookies has completed: the operation is at its first navigation or past it.
CookiesComplete ==
  /\ CookiesParsed
  /\ failedStep # "setupCookies"
  /\ pc \notin {"cookies", "deleteCookie", "setCookie"}

\* C17: setupCookies deletes every cookie of the jar before it sets the parsed
\* pairs, each scoped to the platform's domain and path '/'; when it completes
\* the jar holds exactly the parsed pairs and none of the earlier cookies; and
\* the first navigation starts only after it completed.
C17_DeleteThenSetThenNavigate ==
  /\ \A j, k \in 1..Len(cookieLog) :
       (cookieLog[j].call = "setCookie" /\ cookieLog[k].call = "deleteCookie") => k < j
  /\ \A k \in 1..Len(cookieLog) :
       /\ cookieLog[k].call = "deleteCookie" => cookieLog[k].cookies = jar0
       /\ cookieLog[k].call = "goto" =>
            /\ CookiesComplete
            /\ k = Len(cookieLog)
            /\ \E j \in 1..(k-1) : cookieLog[j].call = "deleteCookie"
            /\ Cardinality({j \in 1..(k-1) : cookieLog[j].call = "setCookie"}) = Len(cookies)
  /\ \A c \in CookiesSet : c.domain = Domain(op) /\ c.path = "/"
  /\ CookiesComplete =>
       /\ jar = {CookieOf(cookies[k], op) : k \in 1..Len(cookies)}
       /\ \A c \in jar0 : c \in jar => c \in CookiesSet

\* C17 witness: setupCookies replaced a jar holding a stale cookie of the
\* platform and a cookie of another site by two parsed pairs, and the
\* navigation followed.
C17_Witness ==
  /\ jar0 # {}
  /\ Len(cookies) = 2
  /\ Cardinality(jar) = 2
  /\ jar \cap jar0 = {}
  /\ \A c \in jar : c.value \notin {Undefined, Empty}
  /\ cookieLog # << >>
  /\ cookieLog[Len(cookieLog)].call = "goto"

\* C18: waitForSelector never raises: it returns the element when the selector
\* shows up within the timeout, and null (after logging) when the timeout
\* elapses, leaving the decision to its caller.
C18_WaitNeverRaises ==
  /\ wait.outcome # "raised"
  /\ wait.state = "returned" =>
       /\ wait.outcome \in {"element", "null"}
       /\ wait.appearsAt > wait.timeout => (wait.outcome = "null" /\ wait.logged)
       /\ wait.outcome = "element" => (wait.appearsAt <= wait.timeout /\ ~wait.logged)
       /\ (wait.appearsAt <= wait.timeout /\ wait.failure = "" /\ ~wait.gone) =>
            wait.outcome = "element"
       /\ wait.failure # "" => wait.outcome = "null"

\* C18 witness: the timeout elapsed before the element showed up and the helper
\* returned null.
C18_Witness ==
  /\ wait.state = "returned"
  /\ wait.failure = "timeout"
  /\ wait.appearsAt = wait.timeout + 1
  /\ wait.outcome = "null"

\* The primary selector matches nothing and the legacy selector matches.
LegacyOnly(primary, legacy) == primary = << >> /\ legacy # << >>

\* C19 for extractWeiboDetail: each field comes from the legacy selector's
\* elements when only that selector matches.
WeiboLegacyFallback(doc, d) ==
  /\ LegacyOnly(doc.detail_wbtext, doc.WB_text) => d.content = TextOf(doc.WB_text)
  /\ LegacyOnly(doc.Feed_body, doc.WB_detail) => d.htmlContent = doc.WB_detail[1].html
  /\ LegacyOnly(doc.Profile_name, doc.WB_info_a) => d.author.name = TextOf(doc.WB_info_a)
  /\ LegacyOnly(doc.Profile_avatar_img, doc.WB_face_img) =>
       d.author.avatar = SrcOf(doc.WB_face_img)
  /\ LegacyOnly(doc.like_num, doc.like_status) =>
       d.interactions.likes = WeiboDetailCount(doc.like_status)
  /\ LegacyOnly(doc.repost_num, doc.forward_btn_text) =>
       d.interactions.reposts = WeiboDetailCount(doc.forward_btn_text)
  /\ LegacyOnly(doc.comment_num, doc.comment_btn_text) =>
       d.interactions.comments = WeiboDetailCount(doc.comment_btn_text)
  /\ LegacyOnly(doc.picture_pic, doc.WB_media_img) => d.images = WeiboImages(doc.WB_media_img)
  /\ LegacyOnly(doc.topic_k, doc.a_topic) => d.topics = WeiboTopics(doc.a_topic)
  /\ LegacyOnly(doc.Comment_content, doc.WB_comment_li) =>
       d.commentList = WeiboComments(doc.WB_comment_li)

\* C19 for extractNoteDetail.
NoteLegacyFallback(doc, d) ==
  /\ LegacyOnly(doc.detail_title, doc.title) => d.title = TextOf(doc.title)
  /\ LegacyOnly(doc.detail_title \o doc.title, doc.h1) => d.title = TextOf(doc.h1)
  /\ LegacyOnly(doc.detail_desc, doc.desc) => d.content = TextOf(doc.desc)
  /\ LegacyOnly(doc.detail_desc \o doc.desc \o doc.content, doc.note_content) =>
       d.content = TextOf(doc.note_content)
  /\ LegacyOnly(doc.noteContainer, doc.note_container) =>
       d.htmlContent = doc.note_container[1].html
  /\ LegacyOnly(doc.author_name, doc.author_username) =>
       d.author.name = TextOf(doc.author_username)
  /\ LegacyOnly(doc.author_img, doc.avatar_item) => d.author.avatar = SrcOf(doc.avatar_item)
  /\ LegacyOnly(doc.note_slider_img, doc.media_container_img) =>
       d.images = NoteImages(doc.media_container_img)
  /\ LegacyOnly(doc.tag, doc.hash_tag) => d.tags = NoteTags(doc.hash_tag)

\* C19: for every field of the detail extractor, single-element and
\* multi-element alike, when the primary selector matches nothing in the
\* document of the detail page and the legacy selector matches, the field's
\* value is taken from the legacy selector's elements.
C19_LegacySelectorFallback ==
  (IsWalk /\ pc = "extract") =>
    IF op = "fetchLatestWeibo"
    THEN WeiboLegacyFallback(pageDoc, ExtractWeiboDetail(pageDoc))
    ELSE NoteLegacyFallback(pageDoc, ExtractNoteDetail(pageDoc))

\* Whether a URL names an avatar or emoji asset.
IsAvatarOrEmoji(url) == Includes(url, "avatar") \/ Includes(url, "emoji")

\* No image of any record of the list is an avatar or emoji asset.
NoAvatarOrEmoji(posts) ==
  \A j \in 1..Len(posts) : \A k \in 1..Len(posts[j].images) :
    ~IsAvatarOrEmoji(posts[j].images[k])

\* C20: in every record of a feed walk, enriched or summary-only, no element of
\* images is a URL containing "avatar" or "emoji".
C20_NoAvatarOrEmojiImage ==
  IsWalk => (NoAvatarOrEmoji(completePosts) /\ NoAvatarOrEmoji(result.posts))

\* C20 witness: a returned walk with a summary-only record and a record
\* enriched from a page whose image elements include an avatar or emoji asset,
\* of which the other images were kept.
C20_Witness ==
  /\ WalkReturned
  /\ result.success
  /\ \E j \in 1..Len(result.posts) : pushLog[j].how # "merged"
  /\ \E j \in 1..Len(result.posts) : \E doc \in DocPool(op) :
       LET els == IF op = "fetchLatestWeibo" THEN doc.picture_pic ELSE doc.note_slider_img
       IN /\ pushLog[j].how = "merged"
          /\ \E k \in 1..Len(els) : IsAvatarOrEmoji(els[k].src)
          /\ result.posts[j].htmlContent = DetailOf(op, doc).htmlContent
          /\ result.posts[j].images = DetailOf(op, doc).images
          /\ result.posts[j].images # << >>
          /\ Len(result.posts[j].images) < Len(els)

\* Whether a stored tag is normalised: not empty, no '#' at either end, no
\* whitespace anywhere.
IsNormalTag(t) ==
  /\ t # Empty
  /\ t[1] # "#"
  /\ t[Len(t)] # "#"
  /\ \A k \in 1..Len(t) : t[k] # " "

\* C21: on both platforms the tag stored for a tag text has no leading '#', no
\* trailing '#' and no whitespace, a tag that normalises to the empty string is
\* not stored, and the documented text normalises to its four letters.
C21_TagNormalized ==
  norm.done =>
    /\ \A k \in 1..Len(norm.weibo) : IsNormalTag(norm.weibo[k])
    /\ \A k \in 1..Len(norm.note) : IsNormalTag(norm.note[k])
    /\ norm.text \in NamedTagTexts =>
         /\ norm.weibo = <<(<<"A", "I", "x", "y">>)>>
         /\ norm.note = <<(<<"A", "I", "x", "y">>)>>

\* Whether a url is absolute: it is not empty and starts with 'http'.
IsAbsoluteUrl(url) == url # Empty /\ StartsWith(url, <<"http">>)

\* C23: every record of a successful walk has an absolute url.
C23_EveryRecordHasAbsoluteUrl ==
  (WalkReturned /\ result.success) =>
    \A k \in 1..Len(result.posts) : IsAbsoluteUrl(result.posts[k].url)

\* The lines of a block with the label kind.
LinesOf(block, kind) == SelectSeq(block, LAMBDA l : l.kind = kind)

\* The tags of a record, per platform.
TagsOf(o, r) == IF o = "fetchLatestWeibo" THEN r.topics ELSE r.tags

\* The text a block is headed with, per platform.
HeadOf(o, r) ==
  IF o = "fetchLatestWeibo" THEN Preview(r.content, SummaryCap)
  ELSE IF r.title # Empty THEN r.title ELSE <<"NOTITLE">>

\* C22: the digest of a successful walk has one block per record, in input
\* order and numbered from 1; a block has a tags line exactly when the record
\* has tags; a record with k comments is shown with min(3, k) previews, the
\* first ones in order, under a header stating that number.
C22_OneBlockPerRecord ==
  digest.returned = "string" =>
    /\ Len(digest.out) = Len(digest.records)
    /\ \A k \in 1..Len(digest.records) :
         LET r == digest.records[k]
             block == digest.out[k]
             shown == LinesOf(block, "comment")
             m == Min(3, Len(r.commentList))
         IN /\ LinesOf(block, "title") = <<Line("title", k, HeadOf(digest.platform, r), Empty)>>
            /\ block[1].kind = "title"
            /\ LinesOf(block, "url") = <<Line("url", 0, r.url, Empty)>>
            /\ (LinesOf(block, "tags") # << >>) <=> (TagsOf(digest.platform, r) # << >>)
            /\ Len(LinesOf(block, "tags")) <= 1
            /\ Len(shown) = m
            /\ \A j \in 1..m :
                 /\ shown[j].n = j
                 /\ shown[j].who = r.commentList[j].author
                 /\ shown[j].text = Preview(r.commentList[j].content, 30)
            /\ LinesOf(block, "commentsHeader") =
                 IF m > 0 THEN <<Line("commentsHeader", m, Empty, Empty)>> ELSE << >>

\* A record with more than three comments, tags and a long text, after a
\* summary-only record, has been formatted.
C22_Witness ==
  /\ digest.returned = "string"
  /\ Len(digest.records) = 2
  /\ Len(digest.records[1].commentList) = 0
  /\ TagsOf(digest.platform, digest.records[1]) = << >>
  /\ Len(digest.records[2].commentList) > 3
  /\ TagsOf(digest.platform, digest.records[2]) # << >>
  /\ Len(LinesOf(digest.out[2], "comment")) = 3

\* The step is a tick of the interval.
IsTick == scroll'.ticks = scroll.ticks + 1

\* The interval has been cleared.
ScrollStopped == scroll.pos \in {"settling", "returned"}

\* What a step of a running scroll does: a tick adds 100 pixels to the
\* accumulated distance and stops the scroll exactly when the distance then
\* reached is at least the height read in that tick; a tick before which the
\* height has grown by at least 100 pixels since the previous tick does not stop
\* the scroll; no other step stops it.
TickRule ==
  IF IsTick
  THEN /\ scroll'.totalHeight = scroll.totalHeight + 100
       /\ scroll'.totalHeight = 100 * scroll'.ticks
       /\ scroll'.read = scroll.scrollHeight
       /\ ScrollStopped' <=> scroll'.totalHeight >= scroll'.read
       /\ (scroll.ticks >= 1 /\ scroll.scrollHeight >= scroll.read + 100) => ~ScrollStopped'
  ELSE ~ScrollStopped'

\* C24: autoScroll scrolls 100 pixels per tick and stops at the first tick at
\* which the accumulated distance is at least the height read in that tick; it
\* does not stop at a tick while the height keeps growing by the increment, and
\* once the height has stopped growing it terminates.
C24_AutoScrollStops ==
  /\ [][~ScrollStopped => TickRule]_vars
  /\ (scroll.pos = "scrolling" /\ ~scroll.loading) ~> (scroll.pos = "returned")

\* The scroll went on over a tick while the height grew, and stopped at a later
\* tick at which the distance equals the height.
C24_Witness ==
  /\ scroll.pos = "returned"
  /\ scroll.ticks >= 3
  /\ scroll.totalHeight = scroll.read
  /\ scroll.scrollHeight = scroll.read

\* Positions of an interaction in the log of the page interactions.
At(what) == {k \in 1..Len(uiLog) : uiLog[k] = what}

\* Some occurrence of interaction a precedes position k of the log.
Before(a, k) == \E j \in At(a) : j < k

\* The elements postWeibo cannot do without.
WeiboMandatory == {"publishBox", "imageButton", "uploadInput", "submitButton"}

\* C25: in postWeibo (both files) the publish button is clicked at most once,
\* after the publish box was clicked and the content typed and, with images,
\* after the files were handed to the upload input and the uploaded picture was
\* observed, in that order; when a mandatory element is absent the result is
\* {success: false, error} and the publish button is never clicked; the result
\* is {success: true} only after the click.
C25_PublishClickedLast ==
  op \in WeiboPosts =>
    /\ Cardinality(At("click submit")) <= 1
    /\ \A k \in At("click submit") :
         /\ k = Len(uiLog)
         /\ \E c \in At("click publishBox") : \E t \in At("type content") : c < t /\ t < k
         /\ options.images =>
              \E u \in At("uploadFile") : \E p \in At("picture shown") :
                 /\ Before("type content", u)
                 /\ u < p
                 /\ p < k
    /\ failedStep \in WeiboMandatory =>
         /\ ~result.success
         /\ result.error = failedStep
         /\ At("click submit") = {}
         /\ pc \in {"finally", "done"}
    /\ (pc = "done" /\ result.state = "returned" /\ failedStep \in WeiboMandatory) =>
         ~result.success /\ result.error # ""
    /\ result.success => At("click submit") # {}

\* A post with images has been published by the postWeibo of weiboSubmit.ts.
C25_Witness ==
  /\ op = "weiboSubmit.postWeibo"
  /\ options.images
  /\ pc = "done"
  /\ result.state = "returned"
  /\ result.success
  /\ uiLog = <<"click publishBox", "type content", "uploadFile", "picture shown",
               "click submit">>

\* C26: postXiaohongshu clicks the publish button, and returns {success:
\* true}, only after the images were uploaded and the title and the content
\* were both typed; a note whose title input or content input is absent (so
\* that nothing is typed into it) is not published.
C26_PublishedWithTitleAndContent ==
  op = "postXiaohongshu" =>
    /\ \A k \in At("click submit") :
         /\ Before("uploadFile", k)
         /\ Before("image shown", k)
         /\ Before("type title", k)
         /\ Before("type content", k)
    /\ result.success => At("click submit") # {}

\* C27: when crawl has ended, a browser it launched has been closed, whatever
\* the exit path.
C27_BrowserClosedOnExit ==
  (crawler.pos = "done" /\ crawler.browser # "none") => crawler.browser = "closed"

\* Call p has its temp names and has not ended.
InFlight(p) == word.calls[p].txt # 0 /\ word.calls[p].pos # "done"

\* Two calls in flight have different temp files.
NoSharedTempFile ==
  \A p, q \in WordCalls :
    (p # q /\ InFlight(p) /\ InFlight(q)) =>
       /\ word.calls[p].txt # word.calls[q].txt
       /\ word.calls[p].html # word.calls[q].html

\* A call reads the text of its own document only.
ReadsOwnText == \A p \in WordCalls : word.calls[p].read \in {0, p}

\* No cleanup removed a file that another call in flight holds.
CleansOwnFiles == \A p \in WordCalls : ~word.calls[p].took

\* A call that has ended has left none of its temp files behind.
TempFilesRemoved ==
  \A p \in WordCalls :
    word.calls[p].pos = "done" =>
      FileAt("txt", word.calls[p].txt) \cup FileAt("html", word.calls[p].html) = {}

\* A call whose input is missing starts no converter and raises.
NoConverterWithoutInput ==
  \A p \in WordCalls :
    ~word.calls[p].exists =>
      /\ word.calls[p].converters = 0
      /\ word.calls[p].pos = "done" => word.calls[p].outcome = "raised"

\* C28: two concurrent calls of readWordContent never share a temp file, each
\* reads only its own text, no cleanup deletes a temp file of another call in
\* flight, every call that ends has removed its temp files, and a call whose
\* input is missing starts no converter.
C28_CallsIsolated ==
  /\ NoSharedTempFile
  /\ ReadsOwnText
  /\ CleansOwnFiles
  /\ TempFilesRemoved
  /\ NoConverterWithoutInput

\* The entries of a list with a name.
Named(list, name) == {k \in 1..Len(list) : list[k].name = name}

\* C29: with recursive = true, every file of the tree whose name passes the
\* filter and that is neither hidden nor inside a hidden directory is returned
\* at its depth, also when the directory it is in does not pass the filter;
\* with includeHidden = false no returned entry, at any depth, has a name
\* starting with '.'.
C29_FilteredTreeComplete ==
  desktop.done =>
    /\ desktop.recursive =>
         \A k \in 1..Len(desktop.tree) :
           LET e == desktop.tree[k]
           IN IF e.type = "file"
              THEN (~IsHidden(e.name) /\ Passes(desktop.filter, e.name)) =>
                     \E r \in Named(desktop.result, e.name) : desktop.result[r].type = "file"
              ELSE \A j \in 1..Len(e.children) :
                     LET f == e.children[j]
                     IN (~IsHidden(e.name) /\ ~IsHidden(f.name)
                           /\ Passes(desktop.filter, f.name)) =>
                          \E r \in Named(desktop.result, e.name) :
                            Named(desktop.result[r].children, f.name) # {}
    /\ ~desktop.includeHidden =>
         \A r \in 1..Len(desktop.result) :
           /\ ~IsHidden(desktop.result[r].name)
           /\ \A c \in 1..Len(desktop.result[r].children) :
                ~IsHidden(desktop.result[r].children[c].name)

====
